---------------------------- MODULE Spec2Model ----------------------------
(***************************************************************************)
(* AI-Arkitekt: the analysis server (src/server.js) and the five analysis  *)
(* strategies it chains (replacement, deep, intelligent, enhanced, basic). *)
(*                                                                         *)
(* A project snapshot is a flat directory holding some of the files of a   *)
(* small library.  A file is a bag of source lines; every line kind is a   *)
(* concrete line of text, and the tables below record what each regular    *)
(* expression or keyword test of the analyzers answers on that text.       *)
(* Fractions are kept as scaled integers: confidence in hundredths, scores *)
(* in units of 1/ScoreScale.                                               *)
(***************************************************************************)
EXTENDS Integers, Sequences, FiniteSets, TLC

(* ------------------------------ bounds -------------------------------- *)
\* largest number of files in an uploaded snapshot
MaxFiles == 3
\* largest number of entries the catalog holds per category
CatalogMax == 4
\* last millisecond at which a request is accepted
MaxClock == 1
\* number of different requests the server is sent (each may be repeated)
MaxRequests == 1

(* ------------------------- the line library --------------------------- *)
\*  lConst     const total = 1;
\*  lLog       console.log(total);
\*  lBody      const name = req.body.name;
\*  lSql       db.query("SELECT * FROM t WHERE id=" + req.body.id);
\*  lStripe    const stripe = require('stripe'); checkout(stripe);
\*  lShop      shop.sell(product, customer);
\*  lPassport  const passport = require('passport');
\*  lBcrypt    bcrypt.hash(password, 10);
\*  lPaypal    paypal.pay(order); // or square, bank transfer
\*  lRoute     app.post('/api/users', handler);
\*  lDom       document.title = 'search';
\*  lTrack     analytics.track('view');
\*  lCatch     } catch (error) { console.log('failed', error); }
\*  lBlank     (empty line)
\*  lReadme    # Project
\*  lPkg       {"name":"shop","dependencies":{"stripe":"1.0.0","lodash":"4.0.0"}}
\*  lBadPkg    {"name":
ManyHandlers == 11
PadLines == 3000

\* the files a snapshot may hold, in directory-listing order
FileNames ==
  <<"README.md", "api.js", "app.js", "auth.js", "generated.js",
    "handlers.js", "package.json", "pay.js", "routes.js", "shop.js",
    "ui.js">>

NameSet == {FileNames[i] : i \in 1..Len(FileNames)}

\* the lines of a file, as a bag: line kind -> number of such lines
Content(name, pkgOk) ==
  CASE name = "README.md"    -> [lReadme |-> 1]
    [] name = "api.js"       -> [lRoute |-> 1, lBody |-> 1, lSql |-> 1]
    [] name = "app.js"       -> [lConst |-> 1, lLog |-> 1, lTrack |-> 1, lCatch |-> 1]
    [] name = "auth.js"      -> [lPassport |-> 1, lBcrypt |-> 1]
    [] name = "generated.js" -> [lConst |-> 1, lBlank |-> PadLines]
    [] name = "handlers.js"  -> [lBody |-> ManyHandlers]
    [] name = "package.json" -> IF pkgOk THEN [lPkg |-> 1] ELSE [lBadPkg |-> 1]
    [] name = "pay.js"       -> [lPaypal |-> 1]
    [] name = "routes.js"    -> [lRoute |-> 4]
    [] name = "shop.js"      -> [lStripe |-> 1, lShop |-> 2, lPaypal |-> 1]
    [] name = "ui.js"        -> [lDom |-> 1]

\* path.extname of a library file
extname(name) ==
  CASE name = "README.md"    -> ".md"
    [] name = "package.json" -> ".json"
    [] OTHER                 -> ".js"

(* -------------------------- generic helpers --------------------------- *)
RECURSIVE SumOver(_, _)
\* sum of f[x] over the finite set S
SumOver(f, S) ==
  IF S = {} THEN 0
  ELSE LET x == CHOOSE y \in S : TRUE IN f[x] + SumOver(f, S \ {x})

RECURSIVE Concat(_)
\* concatenation of a sequence of sequences
Concat(ss) == IF ss = <<>> THEN <<>> ELSE Head(ss) \o Concat(Tail(ss))

Min(a, b) == IF a < b THEN a ELSE b
Max(a, b) == IF a > b THEN a ELSE b

\* Array.prototype.slice(0, n)
slice(s, n) == SubSeq(s, 1, Min(n, Len(s)))

RECURSIVE InsertBy(_, _, _)
\* insert x into the sorted sequence s behind every element that does not
\* come after it: before(a, b) is "the comparator puts a strictly first"
InsertBy(before(_, _), x, s) ==
  IF s = <<>> THEN <<x>>
  ELSE IF before(x, Head(s)) THEN <<x>> \o s
       ELSE <<Head(s)>> \o InsertBy(before, x, Tail(s))

RECURSIVE SortBy(_, _)
\* Array.prototype.sort: stable, elements the comparator calls equal keep
\* their order
SortBy(before(_, _), s) ==
  IF s = <<>> THEN <<>>
  ELSE InsertBy(before, s[Len(s)], SortBy(before, SubSeq(s, 1, Len(s) - 1)))

\* number of lines of a file
LineCount(c) == SumOver(c, DOMAIN c)

\* does some line of the file belong to the set of line kinds
HasLine(c, kinds) == \E l \in DOMAIN c : c[l] > 0 /\ l \in kinds

\* occurrences in the file of a pattern with the per-line counts tbl
Occurrences(c, tbl) ==
  SumOver([l \in DOMAIN c |-> IF l \in DOMAIN tbl THEN c[l] * tbl[l] ELSE 0],
          DOMAIN c)

(* ----------------------------- the catalog ---------------------------- *)
\* the categories of data/comprehensive-api-database.json the analyzers read
CatalogCategories ==
  {"payments", "authentication", "analytics", "communication", "search",
   "media_storage", "monitoring", "ai_ml"}

ImpactCycle == <<50, 30, 25, 50>>
ComplexityCycle == <<"low", "medium", "high", "very_low">>
RoiCycle == <<300, 150, 800, 450>>

\* the i-th entry of a category: business_impact is the percentage its text
\* names, roi the first run of digits of its text
CatalogEntry(cat, i) ==
  LET k == ((i - 1) % 4) + 1
  IN [name            |-> <<cat, i>>,
      business_impact |-> ImpactCycle[k],
      complexity      |-> ComplexityCycle[k],
      roi             |-> RoiCycle[k],
      chatbot         |-> (i % 2 = 1),
      enterprise_ai   |-> (i % 2 = 0)]

\* a catalog with n entries under each of the given categories
Catalog(cats, n) == [c \in cats |-> [i \in 1..n |-> CatalogEntry(c, i)]]

\* the catalogs the server may have been started with
Catalogs ==
  {Catalog(CatalogCategories, n) : n \in 0..CatalogMax}
    \cup {Catalog(CatalogCategories \ {"payments", "ai_ml"}, CatalogMax),
          [Catalog(CatalogCategories, CatalogMax) EXCEPT !["payments"] = <<>>]}

(* ------------------------- project snapshots -------------------------- *)
\* a snapshot: the names present, and whether package.json holds valid JSON
Snapshots ==
  {[names |-> ns, pkgOk |-> ok] :
     ns \in {n \in SUBSET NameSet : Cardinality(n) <= MaxFiles},
     ok \in BOOLEAN} \ 
  {[names |-> ns, pkgOk |-> FALSE] :
     ns \in {n \in SUBSET NameSet : "package.json" \notin n}}

\* the orders in which fs.readdirSync may list a directory holding the names
Listings(names) ==
  {s \in [1..Cardinality(names) -> names] :
     \A i, j \in 1..Cardinality(names) : s[i] = s[j] => i = j}

\* fs.readdirSync + statSync of the flat project directory, in the order
\* the file system lists it: the order of the snapshot where it names one
getAllFiles(p) ==
  LET listing == IF "order" \in DOMAIN p THEN p.order ELSE FileNames
      present == SelectSeq(listing, LAMBDA n : n \in p.names)
  IN [i \in 1..Len(present) |->
        [path |-> present[i], ext |-> extname(present[i])]]

\* fs.readFileSync(path, 'utf8')
readFileSync(p, name) == Content(name, p.pkgOk)

(* ===================== CodeReplacementAnalyzer ======================== *)
ReplacementCategories ==
  <<"payments", "auth", "analytics", "communication", "search", "media",
    "monitoring">>

\* per category and pattern, the line kinds the pattern's regex matches
codePatterns ==
  [payments      |-> <<{"lPaypal"}, {"lPaypal"}, {"lPaypal"}>>,
   auth          |-> <<{"lPassport"}, {}, {"lBcrypt"}>>,
   analytics     |-> <<{"lLog", "lCatch"}, {}, {}, {"lCatch"}>>,
   communication |-> <<{}, {}, {}>>,
   search        |-> <<{}, {}, {}>>,
   media         |-> <<{}, {}, {}>>,
   monitoring    |-> <<{"lCatch"}, {}, {},
                       {"lConst", "lBody", "lStripe", "lPassport"}>>]

\* the catalog key behind each category's recommendations
recommendationsKey ==
  [payments |-> "payments", auth |-> "authentication",
   analytics |-> "analytics", communication |-> "communication",
   search |-> "search", media |-> "media_storage",
   monitoring |-> "monitoring"]

isCodeFile(ext) == ext \in {".js", ".ts", ".jsx", ".tsx", ".py", ".java", ".php"}

\* every (category, pattern) pair in the order scanCodebase tests them
PatternOrder ==
  Concat([c \in 1..Len(ReplacementCategories) |->
            [k \in 1..Len(codePatterns[ReplacementCategories[c]]) |->
               [category |-> ReplacementCategories[c], pattern |-> k]]])

\* the matches scanCodebase pushes, in the order it pushes them
scanMatches(p) ==
  LET files == getAllFiles(p)
      fileMatches(f) ==
        LET hits == SelectSeq(PatternOrder, LAMBDA cp :
                      HasLine(readFileSync(p, f.path),
                              codePatterns[cp.category][cp.pattern]))
        IN [i \in 1..Len(hits) |->
              [category |-> hits[i].category, current |-> hits[i].pattern,
               file |-> f.path]]
  IN Concat([i \in 1..Len(files) |->
               IF isCodeFile(files[i].ext) THEN fileMatches(files[i])
               ELSE <<>>])

RECURSIVE FirstSeen(_, _)
\* the distinct categories of a match list, in order of first appearance:
\* the key order of the Map scanCodebase fills
FirstSeen(ms, seen) ==
  IF ms = <<>> THEN <<>>
  ELSE IF Head(ms).category \in seen THEN FirstSeen(Tail(ms), seen)
       ELSE <<Head(ms).category>>
              \o FirstSeen(Tail(ms), seen \cup {Head(ms).category})

\* codebase.patterns: one entry per category seen, holding its matches
scanCodebase(p) ==
  LET ms == scanMatches(p)
      keys == FirstSeen(ms, {})
  IN [files |-> getAllFiles(p),
      patterns |-> [i \in 1..Len(keys) |->
                      [category |-> keys[i],
                       matches |-> SelectSeq(ms, LAMBDA m :
                                      m.category = keys[i])]]]

\* score of a catalog entry, in hundredths
scoreRecommendation(rec) ==
  (IF rec.business_impact = 50 THEN 500 ELSE 0)
  + (IF rec.business_impact = 30 THEN 300 ELSE 0)
  + (IF rec.business_impact = 25 THEN 200 ELSE 0)
  + (IF rec.complexity \in {"low", "very_low"} THEN 300 ELSE 0)
  + (IF rec.complexity = "medium" THEN 100 ELSE 0)
  + Min(rec.roi, 500)

selectBestRecommendations(recommendations) ==
  slice(SortBy(LAMBDA a, b : scoreRecommendation(a) > scoreRecommendation(b),
               recommendations), 3)

\* faulty variant: the catalog list itself is sorted
recommendationsSortedInPlace(recommendations) ==
  SortBy(LAMBDA a, b : scoreRecommendation(a) > scoreRecommendation(b),
         recommendations)

\* the catalog list selectBestRecommendations was given, after the call:
\* map builds a new array, and it is the new array that sort orders
recommendationsLeft(recommendations) == recommendations

calculateCategoryImpact(category, fileCount) ==
  LET baseImpact == [payments |-> 9, auth |-> 8, monitoring |-> 7,
                     communication |-> 6, analytics |-> 5, search |-> 4,
                     media |-> 3]
  IN Min(10, baseImpact[category] + (fileCount \div 2))

estimateReplacementEffort(category, fileCount) ==
  LET baseEffort == [payments |-> 6, auth |-> 5, monitoring |-> 3,
                     communication |-> 2, analytics |-> 2, search |-> 4,
                     media |-> 3]
  IN Min(10, baseEffort[category] + (fileCount \div 3))

\* faulty variant: one opportunity per match instead of one per category
opportunityPerMatch(db, codebase) ==
  LET ms == Concat([i \in 1..Len(codebase.patterns) |->
                      codebase.patterns[i].matches])
  IN [i \in 1..Len(ms) |->
        [category        |-> ms[i].category,
         currentSolution |-> ms[i].current,
         affectedFiles   |-> <<ms[i].file>>,
         recommendations |->
           selectBestRecommendations(db[recommendationsKey[ms[i].category]]),
         impact |-> calculateCategoryImpact(ms[i].category, 1),
         effort |-> estimateReplacementEffort(ms[i].category, 1)]]

\* one opportunity per category of codebase.patterns, in Map order
findReplacementOpportunities(db, codebase) ==
  [i \in 1..Len(codebase.patterns) |->
     LET e == codebase.patterns[i]
     IN [category        |-> e.category,
         currentSolution |-> e.matches[1].current,
         affectedFiles   |-> [j \in 1..Len(e.matches) |-> e.matches[j].file],
         recommendations |->
           selectBestRecommendations(db[recommendationsKey[e.category]]),
         impact |-> calculateCategoryImpact(e.category, Len(e.matches)),
         effort |-> estimateReplacementEffort(e.category, Len(e.matches))]]

\* the catalog after the call of a strategy.  The replacement analyzer hands
\* the list of every matched category to selectBestRecommendations; the
\* other analyzers read the catalog through slice, filter and map, which
\* build new arrays
catalogAfter(strategy, db, p) ==
  LET patterns == scanCodebase(p).patterns
      matched == {recommendationsKey[patterns[i].category] :
                    i \in 1..Len(patterns)}
  IN IF strategy = "replacement"
     THEN [k \in DOMAIN db |->
             IF k \in matched THEN recommendationsLeft(db[k]) ELSE db[k]]
     ELSE db

\* the comparator of prioritizeRecommendations puts a strictly before b
replacementBefore(a, b) ==
  (b.impact * 10 - b.effort) - (a.impact * 10 - a.effort) < 0

\* faulty variant: the opportunities are numbered in Map order, unsorted
prioritizeUnsorted(opportunities) ==
  [i \in 1..Len(opportunities) |->
     [id            |-> <<"replacement", opportunities[i].category>>,
      category      |-> opportunities[i].category,
      priority      |-> i,
      impact        |-> opportunities[i].impact,
      effort        |-> opportunities[i].effort,
      affectedFiles |-> opportunities[i].affectedFiles,
      providers     |-> opportunities[i].recommendations]]

prioritizeRecommendations(opportunities) ==
  LET sorted == SortBy(replacementBefore, opportunities)
  IN [i \in 1..Len(sorted) |->
        [id            |-> <<"replacement", sorted[i].category>>,
         category      |-> sorted[i].category,
         priority      |-> i,
         impact        |-> sorted[i].impact,
         effort        |-> sorted[i].effort,
         affectedFiles |-> sorted[i].affectedFiles,
         providers     |-> sorted[i].recommendations]]

\* the array prioritizeRecommendations was given, after the call:
\* Array.prototype.sort orders the array it is called on
opportunitiesLeft(opportunities) == SortBy(replacementBefore, opportunities)

\* the local array 'replacements' of analyzeCodeForReplacements when the
\* analyzer returns
replacementsLeft(db, p) ==
  opportunitiesLeft(findReplacementOpportunities(db, scanCodebase(p)))

\* faulty variant: the first entry of codebase.patterns is read even when
\* no category matched
replacementThrowsUnmatched(db, p) ==
  LET patterns == scanCodebase(p).patterns
  IN \/ patterns = <<>>
     \/ \E i \in 1..Len(patterns) :
          LET key == recommendationsKey[patterns[i].category]
          IN key \notin DOMAIN db \/ db[key] = <<>>

\* selectBestRecommendations reads .map of the category's catalog list and
\* generateSimpleSolution reads recommendations[0].name: a matched category
\* with no catalog list, or an empty one, makes the analyzer throw
replacementThrows(db, p) ==
  LET patterns == scanCodebase(p).patterns
  IN \E i \in 1..Len(patterns) :
        LET key == recommendationsKey[patterns[i].category]
        IN key \notin DOMAIN db \/ db[key] = <<>>

analyzeCodeForReplacements(db, p, scan) ==
  LET codebase == scanCodebase(p)
      replacements == findReplacementOpportunities(db, codebase)
  IN [analysis |-> [scan |-> scan,
                    replacementOpportunities |-> Len(replacements),
                    files |-> codebase.files],
      suggestions |-> prioritizeRecommendations(replacements)]

(* ========================= DeepCodeAnalyzer =========================== *)
isAnalyzableFile(ext) ==
  ext \in {".js", ".ts", ".jsx", ".tsx", ".py", ".java", ".php", ".rb", ".go",
           ".cs", ".json"}

\* reading stops behind the first analyzable file the directory lists
readFirstListed(p) ==
  LET files == SelectSeq(getAllFiles(p), LAMBDA f : isAnalyzableFile(f.ext))
  IN [i \in 1..Min(1, Len(files)) |->
        [path |-> files[i].path,
         content |-> readFileSync(p, files[i].path)]]

\* codebase.files of readEntireCodebase: the analyzable files, each with
\* its content
readEntireCodebase(p) ==
  LET files == SelectSeq(getAllFiles(p), LAMBDA f : isAnalyzableFile(f.ext))
  IN [i \in 1..Len(files) |->
        [path |-> files[i].path,
         content |-> readFileSync(p, files[i].path)]]

\* lines of the whole codebase
deepTotalLines(codebase) ==
  SumOver([i \in 1..Len(codebase) |-> LineCount(codebase[i].content)],
          1..Len(codebase))

\* per application type and line kind: keyword occurrences in the line plus
\* twice those in the names declared on it (the api score counts no names)
keywordScore ==
  [calendar  |-> [lBlank |-> 0],
   ecommerce |-> [lStripe |-> 1, lShop |-> 3, lPaypal |-> 1, lPkg |-> 1],
   crud      |-> [lRoute |-> 1],
   api       |-> [lRoute |-> 2]]

typeScore(codebase, t) ==
  SumOver([i \in 1..Len(codebase) |->
             Occurrences(codebase[i].content, keywordScore[t])],
          1..Len(codebase))

\* the last of calendar, ecommerce, crud, api that reaches the highest score
lastHighestScore(codebase) ==
  LET order == <<"calendar", "ecommerce", "crud", "api">>
      last == CHOOSE i \in 1..4 :
                \A j \in 1..4 :
                  /\ typeScore(codebase, order[j]) <= typeScore(codebase, order[i])
                  /\ j > i =>
                       typeScore(codebase, order[j]) < typeScore(codebase, order[i])
  IN IF typeScore(codebase, order[last]) < 5 THEN "none" ELSE order[last]

\* performDeepContentAnalysis: no type below five keyword hits, else the
\* first of calendar, ecommerce, crud, api that reaches the highest score
performDeepContentAnalysis(codebase) ==
  LET order == <<"calendar", "ecommerce", "crud", "api">>
      best == CHOOSE m \in {typeScore(codebase, order[i]) : i \in 1..4} :
                \A i \in 1..4 : typeScore(codebase, order[i]) <= m
      first == CHOOSE i \in 1..4 :
                 /\ typeScore(codebase, order[i]) = best
                 /\ \A j \in 1..(i - 1) : typeScore(codebase, order[j]) # best
  IN IF best < 5 THEN "none" ELSE order[first]

understandApplicationPurpose(codebase) ==
  LET primary == performDeepContentAnalysis(codebase)
  IN CASE primary = "calendar"  -> "calendar_application"
       [] primary = "ecommerce" -> "ecommerce"
       [] primary = "crud"      -> "business_application"
       [] primary = "api"       -> "api_service"
       [] OTHER                 -> "application"

\* line kinds holding 'req.body'; holding 'validate', 'joi' or 'yup'; and
\* holding 'query' and '+' and one of 'req.' and '${'
includesReqBody == {"lBody", "lSql"}
includesValidator == {}
sqlInjectionLine == {"lSql"}

\* findings.specificIssues of analyzeSecurityInCode, counted
analyzeSecurityInCode(codebase) ==
  LET perFile(c) ==
        (IF HasLine(c, includesValidator) THEN 0
         ELSE SumOver([l \in DOMAIN c |->
                         IF l \in includesReqBody THEN c[l] ELSE 0], DOMAIN c))
        + SumOver([l \in DOMAIN c |->
                     IF l \in sqlInjectionLine THEN c[l] ELSE 0], DOMAIN c)
  IN SumOver([i \in 1..Len(codebase) |-> perFile(codebase[i].content)],
             1..Len(codebase))

\* authentication.slice(0, 2) followed by monitoring[0], which is undefined
\* for an empty list
getSecurityProviders(db) ==
  (IF "authentication" \in DOMAIN db THEN slice(db["authentication"], 2)
   ELSE <<>>)
  \o (IF "monitoring" \in DOMAIN db
      THEN IF db["monitoring"] = <<>> THEN <<[undefined |-> TRUE]>>
           ELSE <<db["monitoring"][1]>>
      ELSE <<>>)

createSecurityRecommendation(db, codebase) ==
  LET specificProblems == analyzeSecurityInCode(codebase)
  IN [id         |-> "security_upgrade",
      category   |-> "security",
      impact     |-> Min(10, 6 + specificProblems),
      effort     |-> Max(3, specificProblems),
      confidence |-> 95,
      providers  |-> getSecurityProviders(db)]

\* identifyProblems always reports the security problem (analyzeAuthentication
\* answers 'basic'); the other problems yield no recommendation
deepRecommendations(db, codebase) ==
  SortBy(LAMBDA a, b : b.impact - a.impact < 0,
         <<createSecurityRecommendation(db, codebase)>>)

performDeepAnalysis(db, p, scan) ==
  LET codebase == readEntireCodebase(p)
  IN [analysis |->
        [scan |-> scan,
         applicationPurpose |->
           [type |-> understandApplicationPurpose(codebase)],
         codebase |-> [totalFiles |-> Len(codebase),
                       totalLines |-> deepTotalLines(codebase)]],
      suggestions |-> deepRecommendations(db, codebase)]

(* ====================== IntelligentCodeAnalyzer ======================= *)
intelligentIsCodeFile(ext) ==
  ext \in {".js", ".ts", ".py", ".java", ".php", ".rb", ".go", ".cs", ".cpp",
           ".c"}

\* per pattern and line kind: matches of the pattern's /gi regex in the line
initializeCodePatterns ==
  [api            |-> [lRoute |-> 2],
   database       |-> [lSql |-> 2],
   orm            |-> [lBlank |-> 0],
   frontend       |-> [lDom |-> 1],
   authentication |-> [lBcrypt |-> 1],
   authorization  |-> [lRoute |-> 1],
   ecommerce      |-> [lStripe |-> 1, lShop |-> 1, lPaypal |-> 1],
   caching        |-> [lBlank |-> 0],
   validation     |-> [lBlank |-> 0],
   security       |-> [lBlank |-> 0],
   monitoring     |-> [lTrack |-> 2],
   error_handling |-> [lCatch |-> 2],
   cms            |-> [lRoute |-> 1]]

\* totalLines and the match count of every pattern over the code files
performDeepCodeAnalysis(p) ==
  LET files == SelectSeq(getAllFiles(p),
                         LAMBDA f : intelligentIsCodeFile(f.ext))
      idx == 1..Len(files)
  IN [totalLines |->
        SumOver([i \in idx |-> LineCount(readFileSync(p, files[i].path))],
                idx),
      count |->
        [n \in DOMAIN initializeCodePatterns |->
           SumOver([i \in idx |->
                      Occurrences(readFileSync(p, files[i].path),
                                  initializeCodePatterns[n])], idx)]]

\* density = count / totalLines * 1000; with no line it is NaN, and every
\* comparison with NaN is false
densityGT(a, n, d) == a.totalLines > 0 /\ a.count[n] * 1000 > d * a.totalLines
densityLT(a, n, d) == a.totalLines > 0 /\ a.count[n] * 1000 < d * a.totalLines
\* faulty variant: no pattern is ever taken as present
presentNever(a, n) == FALSE

present(a, n) == a.count[n] > 0

inferProjectContext(a) ==
  LET kind ==
        IF densityGT(a, "ecommerce", 5) THEN <<"ecommerce", "customers">>
        ELSE IF densityGT(a, "api", 10) /\ densityLT(a, "frontend", 2)
          THEN <<"api_service", "developers">>
        ELSE IF densityGT(a, "cms", 3) THEN <<"content_platform", "readers">>
        ELSE IF /\ present(a, "authentication")
                /\ present(a, "authorization")
                /\ densityGT(a, "database", 8)
          THEN <<"business_application", "employees">>
        ELSE IF densityGT(a, "frontend", 5) THEN <<"web_application", "users">>
        ELSE <<"unknown", "unknown">>
  IN [type     |-> kind[1],
      audience |-> kind[2],
      scale    |-> IF a.totalLines > 50000 THEN "enterprise"
                   ELSE IF a.totalLines > 10000 THEN "medium" ELSE "small",
      maturity |->
        IF /\ present(a, "monitoring")
           /\ present(a, "caching")
           /\ densityGT(a, "security", 3) THEN "mature"
        ELSE IF present(a, "error_handling") /\ present(a, "validation")
          THEN "developing"
        ELSE "early"]

analyzeDataStorage(a) ==
  IF densityGT(a, "database", 5)
  THEN IF present(a, "orm") THEN "database_with_orm" ELSE "raw_database"
  ELSE "file_based"

\* calculateImpact(...).multiplier
calculateImpact(scale) ==
  IF scale = "enterprise" THEN 3 ELSE IF scale = "medium" THEN 2 ELSE 1

\* in thousandths: 50 + min(30, totalLines / 1000) + maturity + relevance
calculateIntelligenceScore(a, ctx, recommendationType) ==
  LET relevanceMap ==
        [caching    |-> {"business_application", "api_service",
                         "web_application"},
         monitoring |-> {"api_service", "business_application"},
         security   |-> {"ecommerce", "business_application"}]
  IN Min(100000,
         50000 + Min(30000, a.totalLines)
         + (IF ctx.maturity = "mature" THEN 20000
            ELSE IF ctx.maturity = "developing" THEN 10000 ELSE 0)
         + (IF /\ recommendationType \in DOMAIN relevanceMap
               /\ ctx.type \in relevanceMap[recommendationType]
            THEN 25000 ELSE 0))

getRelevantProviders(db, category) ==
  LET categoryMap ==
        [caching |-> "monitoring", security |-> "authentication",
         performance |-> "monitoring", monitoring |-> "monitoring",
         analytics |-> "analytics", ux |-> "analytics",
         quality |-> "monitoring", documentation |-> "communication",
         maintenance |-> "monitoring"]
      dbCategory == categoryMap[category]
  IN IF dbCategory \in DOMAIN db THEN slice(db[dbCategory], 2) ELSE <<>>

generateFallbackRecommendations(db, a) ==
  (IF a.totalLines > 2000
   THEN <<[id |-> "improve_documentation", category |-> "maintenance",
           impact |-> 5, effort |-> 2, confidence |-> 90,
           intelligenceScore |-> 60000,
           providers |-> getRelevantProviders(db, "documentation")]>>
   ELSE <<>>)
  \o (IF a.totalLines > 1000
      THEN <<[id |-> "add_testing", category |-> "quality",
              impact |-> 8, effort |-> 5, confidence |-> 80,
              intelligenceScore |-> 70000,
              providers |-> getRelevantProviders(db, "quality")]>>
      ELSE <<>>)

\* the five improvement areas in the order they are collected, the fallback
\* when they are all empty, sorted by intelligenceScore
generateIntelligentRecommendations(db, a, ctx) ==
  LET rec(id, cat, imp, eff, conf, type) ==
        [id |-> id, category |-> cat, impact |-> imp, effort |-> eff,
         confidence |-> conf,
         intelligenceScore |-> calculateIntelligenceScore(a, ctx, type),
         providers |-> getRelevantProviders(db, type)]
      areas ==
        (IF /\ analyzeDataStorage(a) \in {"database_with_orm", "raw_database"}
            /\ ~present(a, "caching")
         THEN <<rec("add_caching", "performance",
                    Min(9, 5 + calculateImpact(ctx.scale)), 4, 90, "caching")>>
         ELSE <<>>)
        \o (IF ~present(a, "monitoring") /\ a.totalLines > 1000
            THEN <<rec("add_monitoring", "monitoring", 7, 3, 80, "monitoring")>>
            ELSE <<>>)
        \o (IF ~present(a, "validation") /\ present(a, "api")
            THEN <<rec("add_validation", "security", 8, 4, 90, "security")>>
            ELSE <<>>)
        \o (IF densityLT(a, "error_handling", 2) /\ present(a, "frontend")
            THEN <<rec("improve_error_handling", "ux", 6, 3, 70, "ux")>>
            ELSE <<>>)
        \o (IF ~present(a, "monitoring") /\ ctx.audience = "customers"
            THEN <<rec("add_analytics", "analytics", 7, 2, 80, "analytics")>>
            ELSE <<>>)
      all == IF areas = <<>> THEN generateFallbackRecommendations(db, a)
             ELSE areas
  IN SortBy(LAMBDA x, y : y.intelligenceScore - x.intelligenceScore < 0, all)

analyzeCodeIntelligently(db, p, scan) ==
  LET a == performDeepCodeAnalysis(p)
      ctx == inferProjectContext(a)
  IN [analysis |-> [scan |-> scan,
                    codeAnalysis |-> [totalLines |-> a.totalLines],
                    projectContext |-> ctx],
      suggestions |-> generateIntelligentRecommendations(db, a, ctx)]

(* ---------------------------- package.json ---------------------------- *)
existsPackageJson(p) == "package.json" \in p.names

\* Object.keys(pkg.dependencies) of the library's valid package.json
packageDependencies == {"stripe", "lodash"}

\* scores are kept in units of 1/ScoreScale
ScoreScale == 24 * 100

(* ======================= EnhancedAnalyzer (simple) ==================== *)
\* per flag, the line kinds its regex matches (flags no rule reads are left
\* out, but for hasProductCatalog, which getSimpleMarketplace reads)
advancedPatterns ==
  [hasDatabase       |-> {"lSql"},
   hasDataManagement |-> {"lSql"},
   hasReporting      |-> {},
   hasUserManagement |-> {"lRoute"},
   hasCaching        |-> {},
   hasProductCatalog |-> {"lStripe", "lShop", "lPaypal"}]

\* hasChatbot, hasSearch, hasRecommendations, hasCheckout and hasAuth are
\* initialised to false and never set
detectAdvancedPatterns(p) ==
  LET files == SelectSeq(getAllFiles(p),
                         LAMBDA f : f.ext \in {".js", ".ts", ".py", ".java"})
  IN [flag \in DOMAIN advancedPatterns |->
        \E i \in 1..Len(files) :
           HasLine(readFileSync(p, files[i].path), advancedPatterns[flag])]

\* matches in a line of the ecommerce keyword regex of inferBusinessContext
ecommerceKeywords == [lShop |-> 4, lPaypal |-> 1, lPkg |-> 1]

\* the context stays at its default unless package.json exists and parses;
\* no library line matches the public-website, data or framework tests
inferBusinessContext(p) ==
  LET files == SelectSeq(getAllFiles(p),
                         LAMBDA f : f.ext \in {".js", ".ts", ".py"})
      idx == 1..Len(files)
      hits == SumOver([i \in idx |->
                         Occurrences(readFileSync(p, files[i].path),
                                     ecommerceKeywords)], idx)
  IN IF /\ existsPackageJson(p)
        /\ p.pkgOk
        /\ hits > 5
        /\ "stripe" \in packageDependencies
     THEN [type |-> "ecommerce", audience |-> "customer"]
     ELSE [type |-> "internal_tool", audience |-> "internal"]

\* a provider written into the rule itself
builtin(name) == [name |-> name, builtin |-> TRUE]

generateEnhancedSuggestions(db, patterns, ctx) ==
  LET s(id, cat, imp, eff, conf, provs) ==
        [id |-> id, category |-> cat, impact |-> imp, effort |-> eff,
         confidence |-> conf, providers |-> provs]
  IN (IF ctx.audience = "customer"
      THEN <<s("ai-chatbot", "ai-ux", 9, 4, 95,
               slice(SelectSeq(db["ai_ml"], LAMBDA e : e.chatbot), 3))>>
      ELSE <<>>)
     \o (IF /\ ctx.type = "internal_tool"
            /\ patterns.hasDatabase
            /\ ~patterns.hasCaching
         THEN <<s("database-optimization", "performance", 8, 4, 90,
                  <<builtin("Redis")>>)>>
         ELSE <<>>)
     \o (IF ctx.type = "internal_tool" /\ patterns.hasUserManagement
         THEN <<s("auth-improvement", "security", 9, 5, 95,
                  slice(db["authentication"], 2))>>
         ELSE <<>>)
     \o (IF ctx.type = "ecommerce"
         THEN <<s("personalization", "ai-business", 10, 7, 90,
                  <<builtin("AWS Personalize")>>
                  \o slice(SelectSeq(db["ai_ml"],
                                     LAMBDA e : e.enterprise_ai), 2))>>
         ELSE <<>>)
     \o (IF /\ ctx.type = "internal_tool"
            /\ patterns.hasDataManagement
            /\ ~patterns.hasReporting
         THEN <<s("reporting-system", "business_intelligence", 8, 6, 85,
                  <<builtin("Chart.js + Custom Dashboard"),
                    builtin("Grafana")>>)>>
         ELSE <<>>)
     \o (IF ctx.audience = "customer"
         THEN <<s("advanced-search", "ai-ux", 8, 5, 85, db["search"])>>
         ELSE <<>>)
     \o (IF ctx.type = "ecommerce"
         THEN <<s("payment-optimization", "business", 9, 3, 95,
                  slice(db["payments"], 3))>>
         ELSE <<>>)

\* score = (impact * 2 - effort) * confidence
enhancedScore(f) ==
  (f.impact * 2 - f.effort) * f.confidence * (ScoreScale \div 100)

enhancedRankSuggestions(suggestions) ==
  SortBy(LAMBDA a, b : b.score - a.score < 0,
         [i \in 1..Len(suggestions) |->
            [id         |-> suggestions[i].id,
             category   |-> suggestions[i].category,
             impact     |-> suggestions[i].impact,
             effort     |-> suggestions[i].effort,
             confidence |-> suggestions[i].confidence,
             providers  |-> suggestions[i].providers,
             score      |-> enhancedScore(suggestions[i])]])

\* the catalog lists analyzeProjectAdvanced dereferences: those of the rules
\* that fire and those of getSimpleMarketplace
enhancedThrows(db, p) ==
  LET patterns == detectAdvancedPatterns(p)
      ctx == inferBusinessContext(p)
      needed ==
        {"ai_ml", "analytics", "search", "communication", "monitoring"}
        \cup (IF ctx.type = "ecommerce" \/ patterns.hasProductCatalog
              THEN {"payments"} ELSE {})
        \cup (IF ctx.type = "internal_tool" /\ patterns.hasUserManagement
              THEN {"authentication"} ELSE {})
  IN ~(needed \subseteq DOMAIN db)

analyzeProjectAdvanced(db, p, scan) ==
  LET patterns == detectAdvancedPatterns(p)
      ctx == inferBusinessContext(p)
  IN [analysis |-> [scan |-> scan,
                    files |-> getAllFiles(p),
                    businessContext |-> ctx],
      suggestions |->
        enhancedRankSuggestions(generateEnhancedSuggestions(db, patterns, ctx))]

(* ========================= CodeAnalyzer (basic) ======================= *)
includesChat == {}
includesSearch == {"lDom"}

detectPatterns(p) ==
  LET files == SelectSeq(getAllFiles(p), LAMBDA f : f.ext \in {".js", ".ts"})
      some(kinds) == \E i \in 1..Len(files) :
                        HasLine(readFileSync(p, files[i].path), kinds)
  IN [hasChat |-> some(includesChat), hasSearch |-> some(includesSearch)]

\* deps.security: the dependencies among lodash, moment and request
analyzeDependencies(p) ==
  IF existsPackageJson(p)
  THEN packageDependencies \cap {"lodash", "moment", "request"}
  ELSE {}

generateSuggestions(patterns, security) ==
  LET s(cat, title, imp, eff, hours) ==
        [category |-> cat, title |-> title, impact |-> imp, effort |-> eff,
         estimatedHours |-> hours]
  IN (IF ~patterns.hasChat THEN <<s("UX", "chatbot", 8, 3, 8)>> ELSE <<>>)
     \o (IF ~patterns.hasSearch THEN <<s("UX", "search", 7, 4, 16)>>
         ELSE <<>>)
     \o <<s("Business", "recommendations", 9, 6, 32),
          s("DevOps", "monitoring", 8, 4, 12),
          s("Content", "ai-content", 6, 3, 10)>>
     \o (IF security # {} THEN <<s("Security", "dependencies", 9, 2, 4)>>
         ELSE <<>>)

\* score = (impact * 2 - effort) / estimatedHours * 10
basicScore(f) == ((f.impact * 2 - f.effort) * 10 * ScoreScale) \div f.estimatedHours

rankSuggestions(suggestions) ==
  slice(SortBy(LAMBDA a, b : b.score - a.score < 0,
               [i \in 1..Len(suggestions) |->
                  [category       |-> suggestions[i].category,
                   title          |-> suggestions[i].title,
                   impact         |-> suggestions[i].impact,
                   effort         |-> suggestions[i].effort,
                   estimatedHours |-> suggestions[i].estimatedHours,
                   score          |-> basicScore(suggestions[i])]]), 10)

\* JSON.parse of package.json is not guarded
basicThrows(p) == existsPackageJson(p) /\ ~p.pkgOk

analyzeProject(p, scan) ==
  [analysis |-> [scan |-> scan, files |-> getAllFiles(p)],
   suggestions |->
     rankSuggestions(generateSuggestions(detectPatterns(p),
                                         analyzeDependencies(p)))]

(* ======================= EnhancedAnalyzer (full) ====================== *)
\* line kinds matching /recommend|suggest|ml|ai|openai|anthropic/i, and
\* /chat|bot|gpt/i
aiLine == {"lCatch"}
chatLine == {}

\* patterns.hasChatbot: every file that matches the AI test overwrites it
\* with the outcome of the chat test; hasSearch and hasPersonalization are
\* initialised to false and never set
fullDetectAdvancedPatterns(p) ==
  LET files == SelectSeq(getAllFiles(p),
                         LAMBDA f : f.ext \in {".js", ".ts", ".jsx", ".tsx"})
      tested == SelectSeq(files, LAMBDA f :
                            HasLine(readFileSync(p, f.path), aiLine))
  IN [hasChatbot |->
        /\ tested # <<>>
        /\ HasLine(readFileSync(p, tested[Len(tested)].path), chatLine),
      hasSearch |-> FALSE,
      hasPersonalization |-> FALSE]

\* businessContext.type: the later indicator overwrites the earlier one;
\* keywords is the keywords array of package.json
fullInferBusinessContext(p, keywords) ==
  LET afterShop == IF \E d \in packageDependencies : d = "stripe"
                        \/ "ecommerce" \in keywords
                   THEN "ecommerce" ELSE "unknown"
      afterSaas == IF "saas" \in keywords THEN "saas" ELSE afterShop
      afterContent == IF "blog" \in keywords \/ "media" \in keywords
                      THEN "content" ELSE afterSaas
  IN [type |-> IF existsPackageJson(p) THEN afterContent ELSE "unknown"]

fullGenerateEnhancedSuggestions(patterns, ctx) ==
  LET s(id, cat, imp, eff, conf) ==
        [id |-> id, category |-> cat, impact |-> imp, effort |-> eff,
         confidence |-> conf]
  IN (IF ~patterns.hasChatbot
      THEN <<s("ai-chatbot-advanced", "ai-ux", 9, 4, 95)>> ELSE <<>>)
     \o (IF ~patterns.hasPersonalization /\ ctx.type = "ecommerce"
         THEN <<s("ai-personalization", "ai-business", 10, 7, 90)>>
         ELSE <<>>)
     \o (IF ~patterns.hasSearch
         THEN <<s("ai-search-engine", "ai-ux", 8, 5, 85)>> ELSE <<>>)

\* String.prototype.includes over the ids and categories of the rules and
\* the four words getBusinessContextBonus looks for
includes(str, word) ==
  word \in (CASE str = "ai-ux"               -> {"ai"}
              [] str = "ai-business"         -> {"ai", "business"}
              [] str = "ai-chatbot-advanced" -> {"ai"}
              [] str = "ai-personalization"  -> {"ai", "personalization"}
              [] str = "ai-search-engine"    -> {"ai"}
              [] OTHER                       -> {})

getBusinessContextBonus(suggestion, businessContext) ==
  (IF /\ businessContext.type = "ecommerce"
      /\ \/ includes(suggestion.category, "business")
         \/ includes(suggestion.id, "personalization")
   THEN 5 ELSE 0)
  + (IF /\ businessContext.type = "saas"
        /\ \/ includes(suggestion.category, "ai")
           \/ includes(suggestion.id, "analytics")
     THEN 3 ELSE 0)

\* Math.round(score * 10) / 10 of a score kept in units of 1/ScoreScale
roundTenth(score) ==
  ((score * 20 + ScoreScale) \div (2 * ScoreScale)) * (ScoreScale \div 10)

\* the scored copy of a suggestion; effortPenalty is the effort weighted
\* by the given number of halves
scored(s, analysis, halves) ==
  LET impactScore == s.impact * 2 * ScoreScale
      effortPenalty == (s.effort * halves * ScoreScale) \div 2
      confidenceBonus == s.confidence * 10 * (ScoreScale \div 100)
      businessContextBonus ==
        getBusinessContextBonus(s, analysis.businessContext) * ScoreScale
      score == impactScore - effortPenalty + confidenceBonus
               + businessContextBonus
  IN [id         |-> s.id,
      category   |-> s.category,
      impact     |-> s.impact,
      effort     |-> s.effort,
      confidence |-> s.confidence,
      score      |-> roundTenth(score),
      priority   |-> IF score > 15 * ScoreScale THEN "high"
                     ELSE IF score > 10 * ScoreScale THEN "medium"
                     ELSE "low"]

\* faulty variant: the effort is subtracted at full weight
rankWithFullEffort(suggestions, analysis) ==
  SortBy(LAMBDA a, b : b.score - a.score < 0,
         [i \in 1..Len(suggestions) |-> scored(suggestions[i], analysis, 2)])

\* score = impact * 2 - effort * 0.5 + confidence * 10 + bonus
rankWithMLScoring(suggestions, analysis) ==
  SortBy(LAMBDA a, b : b.score - a.score < 0,
         [i \in 1..Len(suggestions) |-> scored(suggestions[i], analysis, 1)])

\* inferBusinessContext parses package.json outside any try block
fullThrows(p) == existsPackageJson(p) /\ ~p.pkgOk

fullAnalyzeProjectAdvanced(p, keywords, scan) ==
  LET analysis == [scan |-> scan,
                   files |-> getAllFiles(p),
                   patterns |-> fullDetectAdvancedPatterns(p),
                   businessContext |-> fullInferBusinessContext(p, keywords)]
  IN [analysis |-> analysis,
      suggestions |->
        rankWithMLScoring(
          fullGenerateEnhancedSuggestions(analysis.patterns,
                                          analysis.businessContext),
          analysis)]

(* ============================== scan.js =============================== *)
\* line kinds holding an express route, and holding passport, jwt or auth
routeLine == {"lRoute"}
authLine == {"lPassport"}

\* scanProject over the top-level directory listing
scanProject(p) ==
  LET files == getAllFiles(p)
      js == SelectSeq(files, LAMBDA f : f.ext = ".js")
      with(kinds) == SelectSeq(js, LAMBDA f :
                                 HasLine(readFileSync(p, f.path), kinds))
  IN [language  |-> IF js # <<>> THEN "JavaScript" ELSE "Unknown",
      framework |-> IF existsPackageJson(p) THEN "Node.js/Express"
                    ELSE "Unknown",
      endpoints |-> Len(with(routeLine)),
      authFlows |-> [i \in 1..Len(with(authLine)) |-> with(authLine)[i].path]]

(* ============================= server.js ============================== *)
\* the strategies in the order the nested try blocks reach them
Strategies == <<"replacement", "deep", "intelligent", "enhanced", "basic">>

\* the progress written before each strategy is tried
strategyProgress ==
  [replacement |-> 50, deep |-> 60, intelligent |-> 70, enhanced |-> 80,
   basic |-> 90]

\* and the stage written with it
strategyStage ==
  [replacement |-> "Analyserar kodmönster...", deep |-> "Djupanalys...",
   intelligent |-> "Intelligent analys...",
   enhanced |-> "Förbättrad analys...", basic |-> "Grundanalys..."]

\* which strategies' argument-spread calls overflow on a project: deep's
\* push(...matches) and intelligent's push(...snippets) throw a RangeError
\* when the array spread is beyond the engine's argument limit
Limits == {{}, {"deep"}, {"deep", "intelligent"}}

\* only generated code reaches such sizes: generated.js stands for it, and
\* whether its size is beyond the limit is the engine's choice
Overflows(p) == IF "generated.js" \in p.names THEN Limits ELSE {{}}

VARIABLES
  apiDatabase,     \* the catalog every analyzer instance loaded at start
  now,             \* Date.now()
  legacyProgress,  \* Map analysisId -> progress
  timers,          \* analysisIds with a pending clean-up timer
  pc,              \* where the handler of the request in flight stands
  request,         \* <<>> or <<the request in flight / last served>>
  scanResult,      \* <<>> or <<result of scanProject>>
  analysis,        \* <<>> or <<value assigned to the handler's analysis>>
  used,            \* the strategy whose call returned, "" before
  attempted,       \* the strategies called so far, in call order
  thrown,          \* the errors caught so far, in order
  response,        \* <<>> or <<the response sent>>
  previous,        \* <<>> or <<response to the same request, served before>>
  served,          \* number of different requests received so far
  disk,            \* the uploads directory: extraction path -> its files
  runs,            \* per client, the analysis run it asked for
  replacements,    \* <<>> or <<the replacement analyzer's array of
                   \* opportunities, as its last call left it>>
  analysisProgress, \* routes/api.js: Map analysisId -> progress
  database         \* the scans and findings tables

\* the frame of the handler of the one request in flight
handlerVars ==
  <<pc, request, scanResult, analysis, used, attempted, thrown, response,
    previous, served, replacements>>

\* the variables the one-request handler leaves alone
outside == <<disk, runs, analysisProgress, database>>

\* what the routes of routes/api.js write
apiVars == <<analysisProgress, database>>

vars ==
  <<apiDatabase, now, legacyProgress, timers, pc, request, scanResult,
    analysis, used, attempted, thrown, response, previous, served, disk,
    runs, replacements, analysisProgress, database>>

\* no client has asked for anything, nothing was extracted and no analyzer
\* was called
NoRuns == disk = <<>> /\ runs = <<>> /\ replacements = <<>>

\* no analysis was posted to routes/api.js and its tables are empty
NoScans ==
  /\ analysisProgress = <<>>
  /\ database = [scans |-> <<>>, findings |-> <<>>]

Init ==
  /\ apiDatabase \in Catalogs
  /\ now = 0
  /\ legacyProgress = <<>>
  /\ timers = {}
  /\ pc = "idle"
  /\ request = <<>>
  /\ scanResult = <<>>
  /\ analysis = <<>>
  /\ used = ""
  /\ attempted = <<>>
  /\ thrown = <<>>
  /\ response = <<>>
  /\ previous = <<>>
  /\ served = 0
  /\ NoRuns
  /\ NoScans

\* Map.prototype.set
MapSet(m, k, v) == [x \in DOMAIN m \cup {k} |-> IF x = k THEN v ELSE m[x]]
\* Map.prototype.delete
MapDelete(m, k) == [x \in DOMAIN m \ {k} |-> m[x]]

Error(by, message) == [by |-> by, message |-> message]

\* the catch block of the handler: progress 100 'Fel uppstod' on the upload
\* route, and a 500 carrying err.message
Catch(req, err) ==
  /\ legacyProgress' =
       IF req.source = "upload"
       THEN MapSet(legacyProgress, req.analysisId,
                   [progress |-> 100, stage |-> "Fel uppstod"])
       ELSE legacyProgress
  /\ response' = <<[status |-> 500, success |-> FALSE,
                    error |-> err.message, analysisId |-> req.analysisId]>>
  /\ pc' = "done"

NewRequest(source, t, project, limits) ==
  [source |-> source, analysisId |-> t, project |-> project,
   limits |-> limits]

\* a new request starts from a handler frame of its own
Fresh(req) ==
  /\ request' = <<req>>
  /\ scanResult' = <<>>
  /\ analysis' = <<>>
  /\ used' = ""
  /\ attempted' = <<>>

\* POST /upload up to its first await: the id is read from the clock,
\* progress 10 is written and uploadHandler extracts the archive; a request
\* without a file fails on req.file.path
Upload(t, hasFile, zipOk, project, limits) ==
  LET req == NewRequest("upload", t, project, limits)
  IN /\ pc \in {"idle", "done"}
     /\ now' = t
     /\ Fresh(req)
     /\ UNCHANGED <<apiDatabase, timers, outside, replacements>>
     /\ IF hasFile
        THEN /\ legacyProgress' =
                  MapSet(legacyProgress, t,
                         [progress |-> 10, stage |-> "Extraherar filer..."])
             /\ thrown' = IF zipOk THEN <<>>
                          ELSE <<Error("upload", "Invalid or unsupported zip")>>
             /\ response' = <<>>
             /\ pc' = IF zipOk THEN "scan" ELSE "rejected"
        ELSE /\ thrown' = <<Error("upload", "Cannot read properties")>>
             /\ Catch(req, thrown'[1])

ReceiveUpload ==
  /\ pc \in {"idle", "done"}
  /\ served < MaxRequests
  /\ served' = served + 1
  /\ previous' = <<>>
  /\ \E t \in now..MaxClock, hasFile \in BOOLEAN, zipOk \in BOOLEAN,
        project \in Snapshots :
        \E limits \in Overflows(project) :
          /\ (hasFile /\ zipOk) \/ project.names = {}
          /\ Upload(t, hasFile, zipOk, project, limits)

\* the client uploads the archive of the last successful upload once more
ResubmitUpload ==
  /\ pc = "done"
  /\ request[1].source = "upload"
  /\ response[1].success
  /\ \E t \in now..MaxClock :
        Upload(t, TRUE, TRUE, request[1].project, request[1].limits)
  /\ previous' = response
  /\ UNCHANGED served

\* the rejection of uploadHandler's promise reaches the catch block
UploadRejected ==
  /\ pc = "rejected"
  /\ Catch(request[1], thrown[1])
  /\ UNCHANGED <<apiDatabase, now, timers, request, scanResult, analysis,
                 used, attempted, thrown, previous, served, outside,
                 replacements>>

\* POST /analyze-github up to its first await: 400 without a repository
\* URL, else the repository is downloaded and extracted, which may fail
AnalyzeGithub ==
  /\ pc \in {"idle", "done"}
  /\ served < MaxRequests
  /\ served' = served + 1
  /\ previous' = <<>>
  /\ \E hasUrl \in BOOLEAN, fetched \in BOOLEAN, project \in Snapshots :
     \E limits \in Overflows(project) :
       LET req == NewRequest("github", now, project, limits)
       IN /\ (hasUrl /\ fetched) \/ project.names = {}
          /\ hasUrl \/ fetched
          /\ Fresh(req)
          /\ UNCHANGED <<apiDatabase, now, timers, legacyProgress, outside,
                         replacements>>
          /\ IF ~hasUrl
             THEN /\ thrown' = <<>>
                  /\ response' = <<[status |-> 400, success |-> FALSE,
                                    error |-> "Repository URL krävs",
                                    analysisId |-> now]>>
                  /\ pc' = "done"
             ELSE /\ thrown' =
                       IF fetched THEN <<>>
                       ELSE <<Error("github",
                                    "GitHub-integration misslyckades")>>
                  /\ response' = <<>>
                  /\ pc' = IF fetched THEN "scan" ELSE "rejected"

\* progress 30 and scanProject. scanEndpoints and scanAuthFlows call
\* readFileSync on every top-level entry whose name ends in .js with no try
\* around it: an entry of that name that is a directory, or a file that
\* cannot be read, makes scanProject throw, and the await stands outside the
\* analyzers' try blocks, so the error reaches the handler's catch
Scan ==
  /\ pc = "scan"
  /\ UNCHANGED <<apiDatabase, now, timers, request, analysis, used,
                 attempted, previous, served, outside, replacements>>
  /\ \E readable \in BOOLEAN :
       IF readable
       THEN /\ legacyProgress' =
                 IF request[1].source = "upload"
                 THEN MapSet(legacyProgress, request[1].analysisId,
                             [progress |-> 30,
                              stage |-> "Skannar projekt..."])
                 ELSE legacyProgress
            /\ scanResult' = <<scanProject(request[1].project)>>
            /\ pc' = "replacement"
            /\ UNCHANGED <<thrown, response>>
       ELSE /\ thrown' = Append(thrown, Error("scan", "EISDIR"))
            /\ Catch(request[1], Error("scan", "EISDIR"))
            /\ UNCHANGED scanResult

\* the progress entry a try block writes before it calls its strategy
progressAt(req, strategy) ==
  IF req.source = "upload"
  THEN MapSet(legacyProgress, req.analysisId,
              [progress |-> strategyProgress[strategy],
               stage |-> strategyStage[strategy]])
  ELSE legacyProgress

\* faulty variant: a strategy that returns does not end the chain, the next
\* try block is entered all the same
TryOnward(strategy, throws, error, result, next) ==
  /\ pc = strategy
  /\ attempted' = Append(attempted, strategy)
  /\ UNCHANGED <<apiDatabase, now, timers, request, scanResult, previous,
                 served, response, outside, replacements>>
  /\ legacyProgress' = progressAt(request[1], strategy)
  /\ thrown' = IF throws THEN Append(thrown, Error(strategy, error))
               ELSE thrown
  /\ analysis' = IF throws THEN analysis ELSE <<result>>
  /\ used' = IF throws THEN used ELSE strategy
  /\ pc' = IF next = "catch" THEN "respond" ELSE next

\* faulty variant: a strategy that throws has already assigned its partial
\* output to analysis, and a later strategy only fills analysis when empty
TryLeaking(strategy, throws, error, result, next) ==
  /\ pc = strategy
  /\ attempted' = Append(attempted, strategy)
  /\ UNCHANGED <<apiDatabase, now, timers, request, scanResult, previous,
                 served, outside, replacements>>
  /\ IF throws
     THEN /\ thrown' = Append(thrown, Error(strategy, error))
          /\ analysis' = <<[analysis |-> [scan |-> scanResult[1]],
                            suggestions |-> <<>>]>>
          /\ UNCHANGED used
          /\ IF next = "catch"
             THEN Catch(request[1], Error(strategy, error))
             ELSE /\ legacyProgress' = progressAt(request[1], strategy)
                  /\ pc' = next
                  /\ UNCHANGED response
     ELSE /\ analysis' = IF analysis = <<>> THEN <<result>> ELSE analysis
          /\ used' = strategy
          /\ legacyProgress' = progressAt(request[1], strategy)
          /\ pc' = "respond"
          /\ UNCHANGED <<thrown, response>>

\* one try block of the chain: the progress of the strategy is written, the
\* strategy is called; its result is assigned to analysis, or its error is
\* caught and the next try block entered.  The basic analyzer is called in
\* the innermost catch block: its error reaches the handler's catch
Try(strategy, throws, error, result, next) ==
  LET req == request[1]
      atStart == progressAt(req, strategy)
  IN /\ pc = strategy
     /\ attempted' = Append(attempted, strategy)
     /\ apiDatabase' = catalogAfter(strategy, apiDatabase, req.project)
     /\ replacements' =
          IF strategy = "replacement" /\ ~throws
          THEN <<replacementsLeft(apiDatabase, req.project)>>
          ELSE replacements
     /\ UNCHANGED <<now, timers, request, scanResult, previous, served,
                    outside>>
     /\ IF throws
        THEN /\ thrown' = Append(thrown, Error(strategy, error))
             /\ UNCHANGED <<analysis, used>>
             /\ IF next = "catch"
                THEN Catch(req, Error(strategy, error))
                ELSE /\ legacyProgress' = atStart
                     /\ pc' = next
                     /\ UNCHANGED response
        ELSE /\ analysis' = <<result>>
             /\ used' = strategy
             /\ legacyProgress' = atStart
             /\ pc' = "respond"
             /\ UNCHANGED <<thrown, response>>

\* faulty variant: the replacement analyzer stamps its analysis with the
\* time of the run
TryReplacementStamped ==
  LET result == analyzeCodeForReplacements(apiDatabase, request[1].project,
                                           scanResult[1])
  IN Try("replacement",
         replacementThrows(apiDatabase, request[1].project),
         "Cannot read properties of undefined",
         [analysis |-> [scan |-> result.analysis.scan,
                        replacementOpportunities |->
                          result.analysis.replacementOpportunities,
                        files |-> result.analysis.files,
                        analyzedAt |-> now],
          suggestions |-> result.suggestions],
         "deep")

TryReplacement ==
  Try("replacement",
      replacementThrows(apiDatabase, request[1].project),
      "Cannot read properties of undefined",
      analyzeCodeForReplacements(apiDatabase, request[1].project,
                                 scanResult[1]),
      "deep")

TryDeep ==
  Try("deep",
      "deep" \in request[1].limits,
      "Maximum call stack size exceeded",
      performDeepAnalysis(apiDatabase, request[1].project, scanResult[1]),
      "intelligent")

TryIntelligent ==
  Try("intelligent",
      "intelligent" \in request[1].limits,
      "Maximum call stack size exceeded",
      analyzeCodeIntelligently(apiDatabase, request[1].project,
                               scanResult[1]),
      "enhanced")

TryEnhanced ==
  Try("enhanced",
      enhancedThrows(apiDatabase, request[1].project),
      "Cannot read properties of undefined",
      analyzeProjectAdvanced(apiDatabase, request[1].project, scanResult[1]),
      "basic")

TryBasic ==
  Try("basic",
      basicThrows(request[1].project),
      "Unexpected end of JSON input",
      analyzeProject(request[1].project, scanResult[1]),
      "catch")

\* progress 100, the response with the analysis spread into it and the time
\* of the answer, and on the upload route the timer that deletes the progress
\* entry
Respond ==
  LET req == request[1]
  IN /\ pc = "respond"
     /\ legacyProgress' =
          IF req.source = "upload"
          THEN MapSet(legacyProgress, req.analysisId,
                      [progress |-> 100, stage |-> "Klar!"])
          ELSE legacyProgress
     /\ response' = <<[status |-> 200, success |-> TRUE,
                       source |-> req.source, analysisId |-> req.analysisId,
                       analysis |-> analysis[1].analysis,
                       suggestions |-> analysis[1].suggestions,
                       timestamp |-> now]>>
     /\ timers' = IF req.source = "upload" THEN timers \cup {req.analysisId}
                  ELSE timers
     /\ pc' = "done"
     /\ UNCHANGED <<apiDatabase, now, request, scanResult, analysis, used,
                    attempted, thrown, previous, served, outside,
                    replacements>>

\* the clean-up timer of an upload fires: legacyProgress.delete(analysisId)
Cleanup ==
  /\ pc \in {"idle", "done"}
  /\ \E id \in timers :
       /\ legacyProgress' = MapDelete(legacyProgress, id)
       /\ timers' = timers \ {id}
  /\ UNCHANGED <<apiDatabase, now, pc, request, scanResult, analysis, used,
                 attempted, thrown, response, previous, served, outside,
                 replacements>>

Next ==
  \/ ReceiveUpload
  \/ ResubmitUpload
  \/ UploadRejected
  \/ AnalyzeGithub
  \/ Scan
  \/ TryReplacement
  \/ TryDeep
  \/ TryIntelligent
  \/ TryEnhanced
  \/ TryBasic
  \/ Respond
  \/ Cleanup

Spec == Init /\ [][Next]_vars

(* ======================== analyzers called alone ====================== *)
\* the keywords array a valid package.json may carry
PackageKeywords == {{}, {"saas"}, {"blog"}}

\* a caller holds a project and its scan and is about to call one analyzer
DirectInit ==
  /\ apiDatabase \in Catalogs
  /\ now = 0
  /\ legacyProgress = <<>>
  /\ timers = {}
  /\ pc = "call"
  /\ \E s \in Snapshots, k \in PackageKeywords :
     \E limits \in Overflows(s), order \in Listings(s.names) :
     \E p \in {[names |-> s.names, pkgOk |-> s.pkgOk, order |-> order]} :
       /\ k # {} => (existsPackageJson(p) /\ p.pkgOk)
       /\ request = <<[source |-> "direct", analysisId |-> 0, project |-> p,
                       limits |-> limits, keywords |-> k]>>
       /\ scanResult = <<scanProject(p)>>
  /\ analysis = <<>>
  /\ used = ""
  /\ attempted = <<>>
  /\ thrown = <<>>
  /\ response = <<>>
  /\ previous = <<>>
  /\ served = 0
  /\ NoRuns
  /\ NoScans

\* the call of one analyzer: it returns its result or throws
Call(analyzer, throws, error, result) ==
  /\ pc = "call"
  /\ attempted' = <<analyzer>>
  /\ IF throws
     THEN /\ thrown' = <<Error(analyzer, error)>>
          /\ pc' = "threw"
          /\ UNCHANGED <<analysis, used>>
     ELSE /\ analysis' = <<result>>
          /\ used' = analyzer
          /\ pc' = "returned"
          /\ UNCHANGED thrown
  /\ apiDatabase' = catalogAfter(analyzer, apiDatabase, request[1].project)
  /\ replacements' =
       IF analyzer = "replacement" /\ ~throws
       THEN <<replacementsLeft(apiDatabase, request[1].project)>>
       ELSE replacements
  /\ UNCHANGED <<now, legacyProgress, timers, request, scanResult, response,
                 previous, served, outside>>

CallReplacement ==
  Call("replacement",
       replacementThrows(apiDatabase, request[1].project),
       "Cannot read properties of undefined",
       analyzeCodeForReplacements(apiDatabase, request[1].project,
                                  scanResult[1]))

CallDeep ==
  Call("deep",
       "deep" \in request[1].limits,
       "Maximum call stack size exceeded",
       performDeepAnalysis(apiDatabase, request[1].project, scanResult[1]))

CallIntelligent ==
  Call("intelligent",
       "intelligent" \in request[1].limits,
       "Maximum call stack size exceeded",
       analyzeCodeIntelligently(apiDatabase, request[1].project,
                                scanResult[1]))

CallFullEnhanced ==
  Call("full",
       fullThrows(request[1].project),
       "Unexpected end of JSON input",
       fullAnalyzeProjectAdvanced(request[1].project, request[1].keywords,
                                  scanResult[1]))

CallEnhanced ==
  Call("enhanced",
       enhancedThrows(apiDatabase, request[1].project),
       "Cannot read properties of undefined",
       analyzeProjectAdvanced(apiDatabase, request[1].project, scanResult[1]))

CallBasic ==
  Call("basic",
       basicThrows(request[1].project),
       "Unexpected end of JSON input",
       analyzeProject(request[1].project, scanResult[1]))

DirectNext ==
  \/ CallReplacement
  \/ CallDeep
  \/ CallIntelligent
  \/ CallFullEnhanced
  \/ CallEnhanced
  \/ CallBasic

DirectSpec == DirectInit /\ [][DirectNext]_vars

(* ========================= the analysis chain ========================= *)
StrategySet == {Strategies[i] : i \in 1..Len(Strategies)}

\* what the call of a strategy returns when it does not throw
callStrategy(strategy, db, p, scan) ==
  CASE strategy = "replacement" -> analyzeCodeForReplacements(db, p, scan)
    [] strategy = "deep"        -> performDeepAnalysis(db, p, scan)
    [] strategy = "intelligent" -> analyzeCodeIntelligently(db, p, scan)
    [] strategy = "enhanced"    -> analyzeProjectAdvanced(db, p, scan)
    [] strategy = "basic"       -> analyzeProject(p, scan)

\* the request in flight was answered with an analysis
Succeeded == pc = "done" /\ response # <<>> /\ response[1].success

\* the key each strategy's comparator orders its findings by
RankKey(strategy, f) ==
  CASE strategy = "replacement" -> f.impact * 10 - f.effort
    [] strategy = "deep"        -> f.impact
    [] strategy = "intelligent" -> f.intelligenceScore
    [] strategy = "enhanced"    -> f.score
    [] strategy = "basic"       -> f.score

(* ====================== several clients at once ======================= *)
\* number of clients that send a request
MaxClients == 2
Clients == 1..MaxClients

\* the archives a client may upload: one file each
Archives ==
  {[names |-> {n}, pkgOk |-> TRUE] :
     n \in {"README.md", "app.js", "auth.js", "pay.js"}}

\* the repositories a client may name, in directory-listing order, and the
\* files of each
RepoNames == <<"alpha", "beta">>
RepoArchive ==
  [alpha |-> [names |-> {"pay.js"}, pkgOk |-> TRUE],
   beta  |-> [names |-> {"app.js"}, pkgOk |-> TRUE]]

\* uploads/<Date.now()>
uploadPath(t) == [dir |-> "uploads", at |-> t, top |-> ""]
\* uploads/<owner>-<repo>-<Date.now()>.zip
zipPath(t, repo) == [dir |-> "zip", at |-> t, top |-> repo]
\* uploads/extracted-<Date.now()>/<repo>-main
extractedPath(t, repo) == [dir |-> "extracted", at |-> t, top |-> repo]

\* fs.mkdirSync(path, { recursive: true }) and zip.extractAllTo(path, true):
\* the directory keeps what it held and the archive's files are written over
\* it; every file remembers the client whose archive it came from
extractAllTo(d, path, names, c) ==
  LET held == IF path \in DOMAIN d THEN d[path] ELSE <<>>
  IN [q \in DOMAIN d \cup {path} |->
        IF q = path
        THEN [n \in DOMAIN held \cup names |->
                IF n \in names THEN c ELSE held[n]]
        ELSE d[q]]

\* fs.unlinkSync
unlinkSync(d, path) == [q \in DOMAIN d \ {path} |-> d[q]]

\* the project an analyzer finds under a path
projectAt(d, path) == [names |-> DOMAIN d[path], pkgOk |-> TRUE]

\* contents.find(isDirectory) of extractRepository: the first directory of
\* uploads/extracted-<t> in listing order
projectDir(d, t) ==
  LET i == CHOOSE k \in 1..Len(RepoNames) :
             /\ extractedPath(t, RepoNames[k]) \in DOMAIN d
             /\ \A j \in 1..(k - 1) :
                  extractedPath(t, RepoNames[j]) \notin DOMAIN d
  IN RepoNames[i]

\* does the call of a strategy throw
strategyThrows(strategy, db, p, limits) ==
  CASE strategy = "replacement" -> replacementThrows(db, p)
    [] strategy = "deep"        -> "deep" \in limits
    [] strategy = "intelligent" -> "intelligent" \in limits
    [] strategy = "enhanced"    -> enhancedThrows(db, p)
    [] strategy = "basic"       -> basicThrows(p)

\* the nested try blocks run from their first to their last microtask: what
\* the first strategy that returns has returned, or the error of the basic
\* analyzer
analyzeWithFallback(db, p, limits) ==
  LET scan == scanProject(p)
      returning == {i \in 1..Len(Strategies) :
                      ~strategyThrows(Strategies[i], db, p, limits)}
  IN IF returning = {}
     THEN [success |-> FALSE, error |-> "Unexpected end of JSON input"]
     ELSE LET i == CHOOSE k \in returning : \A j \in returning : k <= j
              result == callStrategy(Strategies[i], db, p, scan)
          IN [success |-> TRUE, analysis |-> result.analysis,
              suggestions |-> result.suggestions]

ConcurrentInit ==
  /\ apiDatabase \in {Catalog(CatalogCategories, n) : n \in 1..2}
  /\ now = 0
  /\ legacyProgress = <<>>
  /\ timers = {}
  /\ pc = "idle"
  /\ request = <<>>
  /\ scanResult = <<>>
  /\ analysis = <<>>
  /\ used = ""
  /\ attempted = <<>>
  /\ thrown = <<>>
  /\ response = <<>>
  /\ previous = <<>>
  /\ served = 0
  /\ disk = <<>>
  /\ runs = [c \in Clients |-> [pc |-> "idle"]]
  /\ replacements = <<>>
  /\ NoScans

\* POST /upload for one client.  Every await of the handler waits for a
\* promise that synchronous code has already settled, so the handler runs
\* from Date.now() to res.json() without another handler in between
HandleUpload(c) ==
  /\ runs[c].pc = "idle"
  /\ \E t \in now..MaxClock, archive \in Archives :
     \E extracted \in {extractAllTo(disk, uploadPath(t), archive.names, c)} :
     \E outcome \in {analyzeWithFallback(
                        apiDatabase, projectAt(extracted, uploadPath(t)),
                        {})} :
       /\ now' = t
       /\ disk' = extracted
       /\ legacyProgress' =
            MapSet(legacyProgress, t,
                   [progress |-> 100,
                    stage |-> IF outcome.success THEN "Klar!"
                              ELSE "Fel uppstod"])
       /\ timers' = IF outcome.success THEN timers \cup {t} ELSE timers
       /\ runs' = [runs EXCEPT ![c] =
                     [pc |-> "done", source |-> "upload",
                      archive |-> archive, analysisId |-> t,
                      path |-> uploadPath(t),
                      snapshot |-> extracted[uploadPath(t)],
                      response |-> outcome]]
  /\ UNCHANGED <<apiDatabase, handlerVars, apiVars>>

\* POST /analyze-github up to the download: the repository information has
\* arrived and the archive is being written to its zip file
StartGithub(c) ==
  /\ runs[c].pc = "idle"
  /\ \E t \in now..MaxClock, k \in 1..Len(RepoNames) :
       /\ now' = t
       /\ disk' = extractAllTo(disk, zipPath(t, RepoNames[k]),
                               RepoArchive[RepoNames[k]].names, c)
       /\ runs' = [runs EXCEPT ![c] =
                     [pc |-> "downloading", source |-> "github",
                      repo |-> RepoNames[k],
                      archive |-> RepoArchive[RepoNames[k]],
                      zip |-> zipPath(t, RepoNames[k])]]
  /\ UNCHANGED <<apiDatabase, legacyProgress, timers, handlerVars, apiVars>>

\* the download has finished: extractRepository, the removal of the zip
\* file, the scan, the chain and the response follow without a pause
FinishGithub(c) ==
  /\ runs[c].pc = "downloading"
  /\ \E t \in now..MaxClock :
       /\ now' = t
       /\ IF runs[c].zip \in DOMAIN disk
          THEN \E extracted \in
                    {extractAllTo(disk, extractedPath(t, runs[c].repo),
                                  DOMAIN disk[runs[c].zip], c)} :
               \E path \in {extractedPath(t, projectDir(extracted, t))} :
                  /\ disk' = unlinkSync(extracted, runs[c].zip)
                  /\ runs' = [runs EXCEPT ![c] =
                                [pc |-> "done", source |-> "github",
                                 archive |-> runs[c].archive, path |-> path,
                                 snapshot |-> extracted[path],
                                 response |->
                                   analyzeWithFallback(
                                     apiDatabase, projectAt(extracted, path),
                                     {})]]
          ELSE /\ disk' = disk
               /\ runs' = [runs EXCEPT ![c] =
                             [pc |-> "done", source |-> "github",
                              archive |-> runs[c].archive,
                              path |-> runs[c].zip, snapshot |-> <<>>,
                              response |->
                                [success |-> FALSE,
                                 error |->
                                   "GitHub-integration misslyckades"]]]
  /\ UNCHANGED <<apiDatabase, legacyProgress, timers, handlerVars, apiVars>>

\* the clean-up timer of an upload fires
CleanupRun ==
  /\ \E id \in timers :
       /\ legacyProgress' = MapDelete(legacyProgress, id)
       /\ timers' = timers \ {id}
  /\ UNCHANGED <<apiDatabase, now, handlerVars, disk, runs, apiVars>>

ConcurrentNext ==
  \/ \E c \in Clients : HandleUpload(c)
  \/ \E c \in Clients : StartGithub(c)
  \/ \E c \in Clients : FinishGithub(c)
  \/ CleanupRun

ConcurrentSpec == ConcurrentInit /\ [][ConcurrentNext]_vars

(* ========================== the tree walk ============================= *)
\* symbolic links the kernel follows while it resolves one path before it
\* fails with ELOOP (40 on Linux, scaled down)
SymlinkLimit == 2
\* entries a directory of the project may list
MaxEntries == 3

\* what fs.statSync finds behind a name: a file, a directory, a symbolic
\* link (which it follows) or nothing it can stat (a dangling link, an entry
\* removed since readdirSync, a permission error)
Entry ==
  [a        |-> [kind |-> "file"],
   b        |-> [kind |-> "file"],
   c        |-> [kind |-> "file"],
   secret   |-> [kind |-> "file"],
   dep      |-> [kind |-> "file"],
   gone     |-> [kind |-> "none"],
   lib      |-> [kind |-> "dir", to |-> "lib"],
   node_modules |-> [kind |-> "dir", to |-> "node_modules"],
   up       |-> [kind |-> "link", to |-> "root"],
   out      |-> [kind |-> "link", to |-> "outside"]]

\* the directory trees a project root may be: what the root and its
\* directory lib list, in listing order (lib lists nothing where the root
\* does not list it); 'outside' is a directory that is not under the root
Trees ==
  {[root |-> r, lib |-> l, node_modules |-> <<"dep">>,
    outside |-> <<"secret">>] :
     r \in UNION {Listings(ns) :
                    ns \in {n \in SUBSET {"a", "b", "lib", "node_modules",
                                          "gone", "up", "out"} :
                              Cardinality(n) <= MaxEntries}},
     l \in {<<>>, <<"c">>, <<"gone", "c">>, <<"c", "up">>}}
    \ {[root |-> r, lib |-> l, node_modules |-> <<"dep">>,
        outside |-> <<"secret">>] :
         r \in UNION {Listings(ns) :
                        ns \in SUBSET {"a", "b", "node_modules", "gone", "up",
                                       "out"}},
         l \in {<<"c">>, <<"gone", "c">>, <<"c", "up">>}}

RECURSIVE scanItems(_, _, _, _, _, _)
\* items.forEach of scan from the i-th item on: the files pushed, and
\* whether an exception left the loop. guarded: the body of scan stands in
\* try { } catch (error) {}. A file is [path, in, name]: the path pushed, and
\* the directory and name of the file the path leads to
scanItems(tree, dir, path, links, guarded, i) ==
  IF i > Len(tree[dir]) THEN [files |-> <<>>, threw |-> FALSE]
  ELSE
    LET item == tree[dir][i]
        e == Entry[item]
        followed == IF e.kind = "link" THEN links + 1 ELSE links
        rest == scanItems(tree, dir, path, links, guarded, i + 1)
    IN IF e.kind = "none" \/ followed > SymlinkLimit
       THEN [files |-> <<>>, threw |-> TRUE]
       ELSE IF e.kind = "file"
       THEN [files |-> <<[path |-> Append(path, item), in |-> dir,
                          name |-> item]>> \o rest.files,
             threw |-> rest.threw]
       ELSE IF item \in {"node_modules", ".git"}
       THEN rest
       ELSE LET inner == scanItems(tree, e.to, Append(path, item), followed,
                                   guarded, 1)
            IN IF inner.threw /\ ~guarded
               THEN inner
               ELSE [files |-> inner.files \o rest.files,
                     threw |-> rest.threw]

\* getAllFiles of the replacement, deep and intelligent analyzers and of
\* scan.js: the files pushed when scan(dir) has returned
getAllFilesOf(tree) == scanItems(tree, "root", <<>>, 0, TRUE, 1).files

\* getFileStructure of the basic and enhanced analyzers: no try
getFileStructure(tree) == scanItems(tree, "root", <<>>, 0, FALSE, 1)

\* a project directory has been extracted and is about to be walked
WalkInit ==
  /\ apiDatabase = Catalog(CatalogCategories, 1)
  /\ now = 0
  /\ legacyProgress = <<>>
  /\ timers = {}
  /\ pc = "walk"
  /\ request = <<>>
  /\ scanResult = <<>>
  /\ analysis = <<>>
  /\ used = ""
  /\ attempted = <<>>
  /\ thrown = <<>>
  /\ response = <<>>
  /\ previous = <<>>
  /\ served = 0
  /\ disk \in Trees
  /\ runs = <<>>
  /\ replacements = <<>>
  /\ NoScans

\* the walk by one function: it returns its files or throws
Walk(by, result) ==
  /\ pc = "walk"
  /\ pc' = "walked"
  /\ used' = by
  /\ runs' = <<result>>
  /\ UNCHANGED <<apiDatabase, now, legacyProgress, timers, request, scanResult,
                 analysis, attempted, thrown, response, previous, served,
                 disk, replacements, apiVars>>

WalkGetAllFiles ==
  Walk("getAllFiles", [files |-> getAllFilesOf(disk), threw |-> FALSE])

WalkGetFileStructure == Walk("getFileStructure", getFileStructure(disk))

WalkNext ==
  \/ WalkGetAllFiles
  \/ WalkGetFileStructure

WalkSpec == WalkInit /\ [][WalkNext]_vars

(* ===================== routes/api.js: the scans ======================= *)
\* analysisProgress.set(analysisId, { progress, stage })
setProgress(m, id, progress, stage) ==
  MapSet(m, id, [progress |-> progress, stage |-> stage])

\* analysis.suggestions of processScan: the basic analyzer on the scan of
\* the project
scanSuggestions(p) == analyzeProject(p, scanProject(p)).suggestions

\* UPDATE scans SET status = $2, summary_json = $3 WHERE id = $1
updateScanStatus(d, scanId, status, summary) ==
  [d EXCEPT !.scans[scanId] = [status |-> status, summary |-> summary]]

\* the projects posted: one the basic analyzer analyses, and one whose
\* package.json makes it throw
ScanArchives ==
  {[names |-> {"app.js"}, pkgOk |-> TRUE],
   [names |-> {"package.json"}, pkgOk |-> FALSE]}

\* no request was posted yet
ScanInit ==
  /\ apiDatabase = Catalog(CatalogCategories, 1)
  /\ now = 0
  /\ legacyProgress = <<>>
  /\ timers = {}
  /\ pc = "idle"
  /\ request = <<>>
  /\ scanResult = <<>>
  /\ analysis = <<>>
  /\ used = ""
  /\ attempted = <<>>
  /\ thrown = <<>>
  /\ response = <<>>
  /\ previous = <<>>
  /\ served = 0
  /\ disk = <<>>
  /\ runs = [c \in Clients |-> [pc |-> "idle"]]
  /\ replacements = <<>>
  /\ NoScans

\* what no route of routes/api.js writes
scanFrame == <<apiDatabase, legacyProgress, handlerVars, disk>>

\* a millisecond passes
ScanTick ==
  /\ now < MaxClock
  /\ now' = now + 1
  /\ UNCHANGED <<timers, runs, apiVars, scanFrame>>

\* POST /projects/:projectId/upload up to its first await: the analysisId
\* is taken from the clock and progress 10 is written; without file and
\* repoUrl the answer is 400, else db.createScan is awaited
PostUpload(c) ==
  /\ runs[c].pc = "idle"
  /\ \E kind \in {"zipfile", "repoUrl", "none"}, archive \in ScanArchives :
       /\ analysisProgress' =
            setProgress(analysisProgress, now, 10, "Forbereder analys...")
       /\ runs' = [runs EXCEPT ![c] =
                     IF kind = "none"
                     THEN [pc |-> "answered", analysisId |-> now,
                           status |-> 400]
                     ELSE [pc |-> "createScan", analysisId |-> now,
                           kind |-> kind, archive |-> archive]]
  /\ UNCHANGED <<now, timers, database, scanFrame>>

\* db.createScan settles: the row is inserted with status 'queued' and
\* progress 30 is written, then the upload is extracted or the repository
\* downloaded; a rejected query ends in the handler's catch with 500
CreateScan(c) ==
  /\ runs[c].pc = "createScan"
  /\ \E ok \in BOOLEAN :
       IF ok
       THEN /\ database' =
                 [scans |-> Append(database.scans,
                                   [status |-> "queued", summary |-> "null"]),
                  findings |-> Append(database.findings, <<>>)]
            /\ analysisProgress' =
                 setProgress(analysisProgress, runs[c].analysisId, 30,
                             IF runs[c].kind = "zipfile"
                             THEN "Extraherar filer..."
                             ELSE "Laddar fran GitHub...")
            /\ runs' = [runs EXCEPT ![c] =
                          [pc |-> "extract", analysisId |-> @.analysisId,
                           kind |-> @.kind, archive |-> @.archive,
                           scanId |-> Len(database.scans) + 1]]
       ELSE /\ runs' = [runs EXCEPT ![c] =
                          [pc |-> "answered", analysisId |-> @.analysisId,
                           status |-> 500]]
            /\ UNCHANGED apiVars
  /\ UNCHANGED <<now, timers, scanFrame>>

\* uploadHandler or github.analyzeFromGitHub settles: processScan is called
\* and runs to its first await, the update to 'running', and 202 is sent; a
\* failed extraction or download ends in the handler's catch with 500
Extract(c) ==
  /\ runs[c].pc = "extract"
  /\ \E ok \in BOOLEAN :
       runs' = [runs EXCEPT ![c] =
                  IF ok
                  THEN [pc |-> "markRunning", analysisId |-> @.analysisId,
                        archive |-> @.archive, scanId |-> @.scanId,
                        status |-> 202]
                  ELSE [pc |-> "answered", analysisId |-> @.analysisId,
                        scanId |-> @.scanId, status |-> 500]]
  /\ UNCHANGED <<now, timers, apiVars, scanFrame>>

\* the catch block of processScan up to its await
scanFailed(c) ==
  /\ analysisProgress' =
       setProgress(analysisProgress, runs[c].analysisId, 100, "Fel uppstod")
  /\ runs' = [runs EXCEPT ![c].pc = "markFailed"]

\* the update to 'running' settles: progress 50, 70 and 85 are written while
\* scanProject and the analyzer run, and the first finding is sent to the
\* database; with no finding progress 100 is written and the update to
\* 'done' is sent
MarkRunning(c) ==
  /\ runs[c].pc = "markRunning"
  /\ \E ok \in BOOLEAN :
       IF ok /\ ~basicThrows(runs[c].archive)
       THEN /\ database' =
                 updateScanStatus(database, runs[c].scanId, "running", "null")
            /\ IF scanSuggestions(runs[c].archive) = <<>>
               THEN /\ analysisProgress' =
                         setProgress(analysisProgress, runs[c].analysisId,
                                     100, "Klar!")
                    /\ runs' = [runs EXCEPT ![c].pc = "markDone"]
               ELSE /\ analysisProgress' =
                         setProgress(analysisProgress, runs[c].analysisId,
                                     85, "Sparar resultat...")
                    /\ runs' = [runs EXCEPT ![c].pc = "createFinding"]
       ELSE /\ database' =
                 IF ok
                 THEN updateScanStatus(database, runs[c].scanId, "running",
                                       "null")
                 ELSE database
            /\ scanFailed(c)
  /\ UNCHANGED <<now, timers, scanFrame>>

\* SELECT * FROM findings WHERE scan_id = $1: the table is kept as the
\* rows of each scan, in the order they were inserted
getFindings(d, scanId) == d.findings[scanId]

\* db.createFinding of the next suggestion settles: the row is inserted and
\* the next one is sent, or, behind the last, progress 100 is written and
\* the update to 'done' is sent
CreateFinding(c) ==
  /\ runs[c].pc = "createFinding"
  /\ \E ok \in BOOLEAN :
       LET suggestions == scanSuggestions(runs[c].archive)
           k == Len(getFindings(database, runs[c].scanId)) + 1
       IN IF ok
          THEN /\ database' =
                    [database EXCEPT
                       !.findings[runs[c].scanId] =
                         Append(@, suggestions[k].title)]
               /\ IF k = Len(suggestions)
                  THEN /\ analysisProgress' =
                            setProgress(analysisProgress,
                                        runs[c].analysisId, 100, "Klar!")
                       /\ runs' = [runs EXCEPT ![c].pc = "markDone"]
                  ELSE UNCHANGED <<analysisProgress, runs>>
          ELSE /\ scanFailed(c)
               /\ UNCHANGED database
  /\ UNCHANGED <<now, timers, scanFrame>>

\* the update to 'done' settles: the clean-up timer is set
MarkDone(c) ==
  /\ runs[c].pc = "markDone"
  /\ \E ok \in BOOLEAN :
       IF ok
       THEN /\ database' =
                 updateScanStatus(database, runs[c].scanId, "done", "summary")
            /\ timers' = timers \cup {runs[c].analysisId}
            /\ runs' = [runs EXCEPT ![c].pc = "finished"]
            /\ UNCHANGED analysisProgress
       ELSE /\ scanFailed(c)
            /\ UNCHANGED <<database, timers>>
  /\ UNCHANGED <<now, scanFrame>>

\* the update to 'failed' of the catch block settles; when it is rejected
\* the promise of processScan, which nobody holds, is rejected
MarkFailed(c) ==
  /\ runs[c].pc = "markFailed"
  /\ \E ok \in BOOLEAN :
       database' = IF ok
                   THEN updateScanStatus(database, runs[c].scanId, "failed",
                                         "error")
                   ELSE database
  /\ runs' = [runs EXCEPT ![c].pc = "finished"]
  /\ UNCHANGED <<now, timers, analysisProgress, scanFrame>>

\* setTimeout(() => analysisProgress.delete(analysisId), 5 * 60 * 1000)
ExpireProgress ==
  /\ \E id \in timers :
       /\ analysisProgress' = MapDelete(analysisProgress, id)
       /\ timers' = timers \ {id}
  /\ UNCHANGED <<now, runs, database, scanFrame>>

ScanNext ==
  \/ ScanTick
  \/ \E c \in Clients : PostUpload(c)
  \/ \E c \in Clients : CreateScan(c)
  \/ \E c \in Clients : Extract(c)
  \/ \E c \in Clients : MarkRunning(c)
  \/ \E c \in Clients : CreateFinding(c)
  \/ \E c \in Clients : MarkDone(c)
  \/ \E c \in Clients : MarkFailed(c)
  \/ ExpireProgress

ScanSpec == ScanInit /\ [][ScanNext]_vars

\* every promise settles, every timer fires and the clock goes on
ScanFairSpec == ScanSpec /\ WF_vars(ScanNext)

(* ------------------------------- claims ------------------------------- *)
\* C1: the strategies are called in the fixed order replacement, deep,
\* intelligent, enhanced, basic; the chain moves to the next one only when
\* the one before threw, and stops at the first strategy that returns.
ChainOrder ==
  /\ Len(attempted) <= Len(Strategies)
  /\ attempted = SubSeq(Strategies, 1, Len(attempted))
  /\ pc \in StrategySet => Strategies[Len(attempted) + 1] = pc
  /\ attempted # <<>> =>
       /\ \A i \in 1..Len(thrown) : thrown[i].by = attempted[i]
       /\ IF used = ""
          THEN Len(thrown) = Len(attempted)
          ELSE /\ used = attempted[Len(attempted)]
               /\ Len(thrown) = Len(attempted) - 1
               /\ pc \in {"respond", "done"}

\* three strategies threw, the fourth returned and its answer was sent
ChainOrderWitness ==
  /\ Succeeded
  /\ used = "enhanced"
  /\ attempted = <<"replacement", "deep", "intelligent", "enhanced">>
  /\ Len(thrown) = 3

\* C2: when a strategy throws and a later one returns, the analysis and the
\* response are exactly what the later strategy returned; nothing of the
\* failed strategies' work is in them.
FallbackResultOnly ==
  (used # "" /\ thrown # <<>>) =>
    LET result == callStrategy(used, apiDatabase, request[1].project,
                               scanResult[1])
    IN /\ analysis = <<result>>
       /\ pc = "done" =>
            /\ response[1].success
            /\ response[1].analysis = result.analysis
            /\ response[1].suggestions = result.suggestions

\* the replacement strategy threw and the deep strategy's findings were sent
FallbackResultWitness ==
  /\ Succeeded
  /\ used = "deep"
  /\ Len(thrown) = 1 /\ thrown[1].by = "replacement"
  /\ response[1].suggestions # <<>>

contextFitBonus(f, type) ==
  IF type = "ecommerce" /\ f.id = "ai-personalization" THEN 5
  ELSE IF type = "saas" THEN 3 ELSE 0

\* C5 as stated: the score of every finding that carries a confidence is
\* impact*2 - effort + confidence*10 + contextFitBonus.
ScoreAsSpecified ==
  (pc = "returned" /\ used \in {"full", "enhanced"}) =>
    \A i \in 1..Len(analysis[1].suggestions) :
       LET f == analysis[1].suggestions[i]
           type == analysis[1].analysis.businessContext.type
       IN f.score * 100 =
            ScoreScale * ((f.impact * 2 - f.effort) * 100 + f.confidence * 10
                          + contextFitBonus(f, type) * 100)

\* C5, amended: the full enhanced analyzer scores a finding
\* impact*2 - effort*0.5 + confidence*10 + bonus, where the bonus is 5 for
\* the personalization finding of an ecommerce project and 3 for the AI
\* findings of a saas project; the chained enhanced analyzer scores it
\* (impact*2 - effort) * confidence and the basic analyzer
\* (impact*2 - effort) / estimatedHours * 10; the findings of the other
\* analyzers carry no score.
ScoreAsComputed ==
  pc = "returned" =>
    \A i \in 1..Len(analysis[1].suggestions) :
       LET f == analysis[1].suggestions[i]
       IN CASE used = "full" ->
                 f.score * 100 =
                   ScoreScale
                   * (f.impact * 200 - f.effort * 50 + f.confidence * 10
                      + 100 * contextFitBonus(
                                f, analysis[1].analysis.businessContext.type))
            [] used = "enhanced" ->
                 f.score * 100 =
                   ScoreScale * (f.impact * 2 - f.effort) * f.confidence
            [] used = "basic" ->
                 f.score =
                   (ScoreScale * (f.impact * 2 - f.effort) * 10)
                     \div f.estimatedHours
            [] OTHER -> "score" \notin DOMAIN f

\* the full analyzer ranked the personalization finding of an ecommerce
\* project, bonus included
ScoreWitness ==
  /\ pc = "returned"
  /\ used = "full"
  /\ analysis[1].analysis.businessContext.type = "ecommerce"
  /\ \E i \in 1..Len(analysis[1].suggestions) :
       /\ analysis[1].suggestions[i].id = "ai-personalization"
       /\ analysis[1].suggestions[i].score * 2 = 61 * ScoreScale

\* an analyzer called alone has returned
Returned == pc = "returned"

\* the findings it returned
Findings == analysis[1].suggestions

\* C6: no result holds more than 10 findings.
AtMostTenFindings == Returned => Len(Findings) <= 10

\* the basic analyzer, whose ranker cuts its list to ten, returned the six
\* findings of all its rules
AtMostTenWitness == Returned /\ used = "basic" /\ Len(Findings) = 6

\* C7: no two findings of a result share a category.
DistinctCategories ==
  Returned =>
    \A i, j \in 1..Len(Findings) :
       i # j => Findings[i].category # Findings[j].category

\* C8: every finding has 0 <= impact <= 10, 0 <= effort <= 10 and
\* 0 <= confidence <= 1 (confidence is kept in hundredths).
FieldsInRange ==
  Returned =>
    \A i \in 1..Len(Findings) :
       LET f == Findings[i]
       IN /\ 0 <= f.impact /\ f.impact <= 10
          /\ 0 <= f.effort /\ f.effort <= 10
          /\ "confidence" \in DOMAIN f =>
               (0 <= f.confidence /\ f.confidence <= 100)

\* C9: every finding carries at most 3 providers.
AtMostThreeProviders ==
  Returned =>
    \A i \in 1..Len(Findings) :
       "providers" \in DOMAIN Findings[i] => Len(Findings[i].providers) <= 3

\* the context type a result carries, "none" when it carries none
contextType(a) ==
  IF "applicationPurpose" \in DOMAIN a THEN a.applicationPurpose.type
  ELSE IF "projectContext" \in DOMAIN a THEN a.projectContext.type
  ELSE IF "businessContext" \in DOMAIN a THEN a.businessContext.type
  ELSE "none"

\* the call was made on a snapshot without files, with a catalog that has
\* every category
ZeroFiles ==
  /\ pc \in {"returned", "threw"}
  /\ request[1].project.names = {}
  /\ CatalogCategories \subseteq DOMAIN apiDatabase

RunsShareNothing ==
  \A c \in Clients :
     runs[c].pc = "done" =>
       /\ runs[c].response.success
       /\ DOMAIN runs[c].snapshot = runs[c].archive.names
       /\ \A n \in DOMAIN runs[c].snapshot : runs[c].snapshot[n] = c
       /\ runs[c].response =
            analyzeWithFallback(apiDatabase, runs[c].archive, {})

\* C13: no step of the server changes the catalog: every entry and the
\* order of the entries of every category stay as they were loaded.
CatalogNeverMutated == [][apiDatabase' = apiDatabase]_vars

\* the replacement analyzer answered with a provider list whose first entry
\* is not the first entry of the catalog category it was taken from, while
\* the catalog is still one of those the server can be started with
CatalogWitness ==
  /\ Succeeded
  /\ used = "replacement"
  /\ apiDatabase \in Catalogs
  /\ \E i \in 1..Len(response[1].suggestions) :
       LET f == response[1].suggestions[i]
       IN /\ f.providers # <<>>
          /\ f.providers[1] # apiDatabase[recommendationsKey[f.category]][1]

\* C14: a stage leaves the values it was handed as they were: when the
\* replacement analyzer has returned, the list of opportunities it handed to
\* prioritizeRecommendations is, in content and order, the list
\* findReplacementOpportunities returned.
StageInputsUnchanged ==
  (Returned /\ used = "replacement") =>
    replacements[1] =
      findReplacementOpportunities(apiDatabase,
                                   scanCodebase(request[1].project))

\* C15: the intelligent analyzer's context type is the type whose pattern
\* has the highest density of all types, and the generic type ('unknown' in
\* the code) only stands where no type was picked.
HighestDensityType ==
  (Returned /\ used = "intelligent") =>
    LET a == performDeepCodeAnalysis(request[1].project)
        t == analysis[1].analysis.projectContext.type
        patternOf == [ecommerce            |-> "ecommerce",
                      api_service          |-> "api",
                      content_platform     |-> "cms",
                      business_application |-> "database",
                      web_application      |-> "frontend"]
    IN IF t \in DOMAIN patternOf
       THEN \A u \in DOMAIN patternOf :
              a.count[patternOf[u]] <= a.count[patternOf[t]]
       ELSE t = "unknown"

\* the keyword hits of the four types of the deep analyzer, in the order of
\* its detectors, for the project of the request
deepScores ==
  LET codebase == readEntireCodebase(request[1].project)
  IN [i \in 1..4 |->
        typeScore(codebase, <<"calendar", "ecommerce", "crud", "api">>[i])]

\* C16: the deep analyzer's context has exactly one type, and where several
\* types reach the highest score it is that of the first of them in the
\* order calendar, ecommerce, business (crud), api.
OneTypeByPriority ==
  (Returned /\ used = "deep") =>
    LET types == <<"calendar_application", "ecommerce", "business_application",
                   "api_service">>
        highest == {i \in 1..4 : \A j \in 1..4 : deepScores[j] <= deepScores[i]}
        t == analysis[1].analysis.applicationPurpose.type
    IN /\ t \in {types[i] : i \in 1..4} \cup {"application"}
       /\ t # "application" =>
            \E i \in highest : /\ t = types[i]
                               /\ \A j \in highest : i <= j

\* the deep analyzer returned 'ecommerce' for a project whose ecommerce and
\* api scores tie for the highest
OneTypeWitness ==
  /\ Returned
  /\ used = "deep"
  /\ deepScores[2] = deepScores[4]
  /\ deepScores[2] >= 5
  /\ deepScores[1] < deepScores[2]
  /\ deepScores[3] < deepScores[2]
  /\ analysis[1].analysis.applicationPurpose.type = "ecommerce"

\* C17: whatever the order in which the directory lists the files of a
\* snapshot, the deep, the intelligent and the enhanced analyzer derive the
\* same context: the one returned equals the one derived under every other
\* listing of the same files.
SameContextAnyOrder ==
  (Returned /\ used \in {"deep", "intelligent", "enhanced"}) =>
    \A o \in Listings(request[1].project.names) :
      LET q == [request[1].project EXCEPT !.order = o]
      IN CASE used = "deep" ->
                analysis[1].analysis.applicationPurpose.type =
                  understandApplicationPurpose(readEntireCodebase(q))
           [] used = "intelligent" ->
                analysis[1].analysis.projectContext =
                  inferProjectContext(performDeepCodeAnalysis(q))
           [] used = "enhanced" ->
                analysis[1].analysis.businessContext = inferBusinessContext(q)

\* the deep analyzer returned 'ecommerce' for shop.js and ui.js, listed with
\* ui.js first
SameContextWitness ==
  /\ Returned
  /\ used = "deep"
  /\ request[1].project.order = <<"ui.js", "shop.js">>
  /\ analysis[1].analysis.applicationPurpose.type = "ecommerce"

\* C18: where a tree without symbolic links holds an entry that cannot be
\* stat-ed, the walk does not throw and still returns every file of the root
\* directory and, where the root lists lib, every file of lib.
WalkSkipsOnlyBadEntry ==
  (/\ pc = "walked"
   /\ \A d \in {"root", "lib"} :
        \A i \in 1..Len(disk[d]) : Entry[disk[d][i]].kind # "link") =>
    /\ ~runs[1].threw
    /\ \A d \in {"root", "lib"} :
         \A i \in 1..Len(disk[d]) :
           Entry[disk[d][i]].kind = "file" =>
             \E k \in 1..Len(runs[1].files) :
               runs[1].files[k].path =
                 (IF d = "root" THEN <<>> ELSE <<"lib">>) \o <<disk[d][i]>>

\* C19: every file the walk returns is a file of a directory under the
\* root, whatever symbolic links the tree holds.
WalkStaysUnderRoot ==
  pc = "walked" =>
    \A k \in 1..Len(runs[1].files) :
      runs[1].files[k].in \in {"root", "lib", "node_modules"}

\* C20: when the replacement analyzer is called on a project one of whose
\* matched categories has an empty list in the catalog, so that no entry
\* scores above zero for it, the analyzer returns, and its finding for that
\* category carries an empty provider list.
EmptyCategoryEmptyProviders ==
  (pc \in {"returned", "threw"} /\ attempted = <<"replacement">>) =>
    LET patterns == scanCodebase(request[1].project).patterns
    IN \A i \in 1..Len(patterns) :
         LET key == recommendationsKey[patterns[i].category]
         IN (key \in DOMAIN apiDatabase /\ apiDatabase[key] = <<>>) =>
              /\ Returned
              /\ \E k \in 1..Len(Findings) :
                   /\ Findings[k].category = patterns[i].category
                   /\ Findings[k].providers = <<>>

\* the ids of the findings returned
FindingIds == {Findings[k].id : k \in 1..Len(Findings)}

MissingProviderSkipsOneRule ==
  (pc \in {"returned", "threw"} /\ attempted = <<"replacement">>) =>
    LET patterns == scanCodebase(request[1].project).patterns
        listOf(i) == apiDatabase[recommendationsKey[patterns[i].category]]
    IN (/\ \A i \in 1..Len(patterns) :
             recommendationsKey[patterns[i].category] \in DOMAIN apiDatabase
        /\ \E i \in 1..Len(patterns) : listOf(i) = <<>>
        /\ \E i \in 1..Len(patterns) : listOf(i) # <<>>) =>
         /\ Returned
         /\ \A i \in 1..Len(patterns) :
              listOf(i) # <<>> =>
                \E k \in 1..Len(Findings) :
                  Findings[k].category = patterns[i].category

\* C23: whenever GET /scans/:scanId/findings is asked for the scan of a
\* request, while it runs or after it has failed, it returns either no
\* finding or all the findings of the run.
NoPartialFindings ==
  \A c \in Clients :
    ("scanId" \in DOMAIN runs[c] /\ "archive" \in DOMAIN runs[c]) =>
      Len(getFindings(database, runs[c].scanId))
        \in {0, Len(scanSuggestions(runs[c].archive))}

\* C24: an upload whose snapshot is the one file shop.js, which holds the
\* tokens stripe and checkout and no validation of a cart (or that file with
\* a package.json naming stripe), is answered with the context type
\* 'ecommerce' and with the finding payment-optimization of impact 8 or
\* more, which only the enhanced analyzer has.
StripeCheckoutExample ==
  (/\ Succeeded
   /\ request[1].project.names \in {{"shop.js"}, {"shop.js", "package.json"}}
   /\ request[1].project.pkgOk) =>
    /\ used = "enhanced"
    /\ contextType(response[1].analysis) = "ecommerce"
    /\ \E k \in 1..Len(response[1].suggestions) :
         /\ response[1].suggestions[k].id = "payment-optimization"
         /\ response[1].suggestions[k].impact >= 8

\* C25: an upload whose snapshot is the file api.js, in which req.body is
\* concatenated into the string of a database query, is answered with a
\* finding of category security whose confidence is 0.9 or more.
SqlConcatenationExample ==
  (Succeeded /\ request[1].project.names = {"api.js"}) =>
    \E k \in 1..Len(response[1].suggestions) :
      LET f == response[1].suggestions[k]
      IN /\ f.category = "security"
         /\ "confidence" \in DOMAIN f
         /\ f.confidence >= 90

\* C26: every scan row that was inserted (status 'queued') has the status
\* 'done' or 'failed' at some later time.
ScansTerminate ==
  \A i \in 1..MaxClients :
    (i \in DOMAIN database.scans)
      ~> (/\ i \in DOMAIN database.scans
          /\ database.scans[i].status \in {"done", "failed"})


\* C27: when scanProject throws, the request does not fail: the analyzers
\* are still called and a result is returned.
ScanFailureNotFatal ==
  (pc = "done" /\ thrown # <<>> /\ thrown[1].by = "scan") =>
    /\ attempted # <<>>
    /\ response[1].success


\* C28: as long as an analysisId has an entry in the progress map, no step
\* of any request lowers the progress stored under it.
ProgressNeverDecreases ==
  [][\A id \in DOMAIN analysisProgress \cap DOMAIN analysisProgress' :
       analysisProgress'[id].progress >= analysisProgress[id].progress]_vars


\* C29: every analysisId that has an entry in the progress map has none at
\* some later time.
ProgressEntriesRemoved ==
  \A id \in 0..MaxClock :
    (id \in DOMAIN analysisProgress) ~> (id \notin DOMAIN analysisProgress)


\* C30: in a finding of the replacement analyzer no file is listed twice in
\* affectedFiles, and the impact is the one computed from the number of
\* distinct files matched for the category.
AffectedFilesDistinct ==
  (Returned /\ used = "replacement") =>
    \A k \in 1..Len(Findings) :
      LET files == Findings[k].affectedFiles
          distinct == {files[j] : j \in 1..Len(files)}
      IN /\ Len(files) = Cardinality(distinct)
         /\ Findings[k].impact =
              calculateCategoryImpact(Findings[k].category,
                                      Cardinality(distinct))

=============================================================================
